---- MODULE Spec2Model ----
(***************************************************************************)
(* A model of logfire: the log readers (src/logreader.py), the log4j       *)
(* parser and the two aggregators (src/logfire.py).                        *)
(*                                                                         *)
(* Spec        the aggregator shared by the reader threads (producers)     *)
(*             and the output thread (the consumer draining get()).        *)
(* ReaderSpec  one reader thread (LogReader.run) over a log file that      *)
(*             other processes append to, truncate, replace and remove.    *)
(*                                                                         *)
(* Timestamps are the 23-character texts of the source; they are compared  *)
(* only with each other, so they are modelled by naturals in the same      *)
(* order.  An entry is the LogEntry tuple (ts, fid, i, ..., level, ...).   *)
(***************************************************************************)
EXTENDS Integers, Sequences, FiniteSets, TLC

\* ------------------------------------------------------------------ bounds
NumReaders == 2      \* len(file_names): reader ids are 0 .. NumReaders-1
MaxEntries == 3      \* entries added in all
MaxTs      == 2      \* timestamps are 1 .. MaxTs
MaxLines   == 2      \* lines of the log file when the reader starts
MaxEnvSteps == 2     \* changes other processes make to the log file
StartTime  == 3      \* time.time() when the reader starts
MaxTime    == 6      \* the last time.time() looked at
MaxArrive  == 2      \* LoopSpec: records a follow-mode read pass meets at most
MaxCalls   == 4      \* LoopSpec: housekeeping calls counted
MaxFileLines == 3    \* FnSpec: lines of a file
MaxTail    == 3      \* FnSpec: tail_length is 1 .. MaxTail
MaxPathLen == 3
\* the files the parser reads have at most this many lines
MaxParseLines == 4
\* the sample lines of autoconfigure have at most this many columns after the date
MaxColumns == 5
\* the reader is stopped and started again at most this many times
MaxRestarts == 1      \* FnSpec: characters of a path

Readers == 0 .. (NumReaders - 1)

VARIABLES
    variant,      \* "ordered" (LogAggregator) or "fifo" (NonOrderedLogAggregator)
    follow,       \* self.follow of the readers
    entries,      \* the aggregator's heap array / deque
    open_files,   \* the aggregator's set of readers that have not signalled eof
    cpc,          \* where the consumer is inside get()
    added,        \* history: the entries passed to add, in call order
    yielded,      \* history: what get() yielded, each with the number of adds done before
    quiescent,    \* history: get() was started with every reader at eof
    eofd          \* history: the reader ids that were passed to eof

aggVars == <<variant, follow, entries, open_files, cpc, added, yielded, quiescent, eofd>>

VARIABLES
    path_ino,       \* the inode the reader's path names now, 0 when there is no file
    fcontent,       \* inode -> the lines of that file
    envSteps,       \* the number of changes other processes made
    rpc,            \* where the reader thread is in run()
    handles,        \* the file objects the reader opened: [ino, pos, closed]
    logfile_self,   \* self.logfile: an index into handles, 0 for None
    logfile_local,  \* the local variable logfile of run()
    logfile_id,     \* self.logfile_id
    last_ensure,    \* self.last_ensure_file_is_good_call_timestamp
    now,            \* the last value time.time() returned
    entry_count,    \* the local variable entry_count of run()
    parser_i,       \* the local variable i of the generator Log4jParser.read
    stat_results,   \* the local variable stat_results of _ensure_file_is_good
    hk_ret,         \* where run() goes on after _maybe_do_housekeeping
    tail_length,    \* self.tail_length
    levels,         \* self.entry_filter.levels
    sent,           \* history: the reader's calls of receiver.add and receiver.eof
    started,        \* history: run() got past open, autoconfigure and seek
    modified,       \* history: the file the reader opened was appended to or truncated
    progress_file_path, \* self.progress_file_path is set (a progress file is configured)
    progress_file,  \* the record the progress file holds, <<[id, pos, size]>>; <<>> when it is absent or does not parse
    last_save,      \* self.last_save_progress_call_timestamp
    logged,         \* the records logged by the latest _ensure_file_is_good call
    truncated,      \* history: "pending" after a truncation, "seen" once os.stat ran after it
    remaining,      \* LoopSpec: the entries of the file the reader has not read yet
    hk_calls,       \* LoopSpec: the housekeeping calls of run(), counted up to MaxCalls
    progress_exists, \* there is a file at progress_file_path (one that does not parse has progress_file = <<>>)
    progress_log,   \* the records logged by the latest _seek_first_unprocessed_position or _save_progress call
    restarts,       \* RestartSpec: the number of times the reader was stopped and started again
    call,           \* FnSpec: the function called, with its arguments
    ret             \* FnSpec: <<>> before the call returns, then <<what it returned>>

readerVars == <<path_ino, fcontent, envSteps, rpc, handles, logfile_self, logfile_local,
                logfile_id, last_ensure, now, entry_count, parser_i, stat_results,
                hk_ret, tail_length, levels, sent, started, modified,
                progress_file_path, progress_file, last_save, logged, truncated,
                remaining, hk_calls, progress_exists, progress_log, restarts, call, ret>>

vars == <<aggVars, readerVars>>

\* ------------------------------------------------ the reader's constants

\* tail_length = None, the default of LogReader.__init__
NoTail == -1
\* `entry_count & 1023 == 0`: the mask of LogReader.run
HousekeepingMask == 1023
\* LogReader.ENSURE_FILE_IS_GOOD_CALL_INTERVAL
ENSURE_FILE_IS_GOOD_CALL_INTERVAL == 2
\* LogReader.SAVE_PROGRESS_CALL_INTERVAL
SAVE_PROGRESS_CALL_INTERVAL == 5

Levels == {"INFO", "ERROR"}
\* LoopSpec: the numbers of entries of the files of a non-follow run
RunLengths == {1, 60, 3000}
MaxInodes == MaxEnvSteps + 1
Inodes == 1 .. MaxInodes

\* no function of FnSpec is called
NoCall == [fn |-> "none"]

\* the reader thread of Spec, which is about the aggregator alone, does not run
ReaderIdle ==
    /\ path_ino = 0
    /\ fcontent = [f \in Inodes |-> <<>>]
    /\ envSteps = 0
    /\ rpc = "off"
    /\ handles = <<>>
    /\ logfile_self = 0
    /\ logfile_local = 0
    /\ logfile_id = 0
    /\ last_ensure = 0
    /\ now = StartTime
    /\ entry_count = 0
    /\ parser_i = 0
    /\ stat_results = [ino |-> 0, size |-> 0]
    /\ hk_ret = "loop"
    /\ tail_length = NoTail
    /\ levels = {}
    /\ sent = <<>>
    /\ started = FALSE
    /\ modified = FALSE
    /\ progress_file_path = FALSE
    /\ progress_file = <<>>
    /\ last_save = 0
    /\ logged = <<>>
    /\ truncated = "no"
    /\ remaining = 0
    /\ hk_calls = 0
    /\ progress_exists = FALSE
    /\ progress_log = <<>>
    /\ restarts = 0
    /\ call = NoCall
    /\ ret = <<>>

\* ------------------------------------------------------------ LogEntry

LogEntry(ts, fid, i, level) == [ts |-> ts, fid |-> fid, i |-> i, level |-> level]

\* a comparison that looks at the timestamp only
EntryLtTsOnly(a, b) == a.ts < b.ts

\* Tuple comparison of two LogEntry namedtuples: ts, then fid, then i.  The
\* fields after i decide only between entries that agree on all three.
EntryLt(a, b) ==
    \/ a.ts < b.ts
    \/ a.ts = b.ts /\ a.fid < b.fid
    \/ a.ts = b.ts /\ a.fid = b.fid /\ a.i < b.i

EntryLe(a, b) == ~EntryLt(b, a)

\* ------------------------------------------------------------ heapq

\* heapq._siftdown(heap, startpos, pos), positions 0-based as in the source
RECURSIVE SiftDown(_, _, _, _)
SiftDown(heap, startpos, pos, newitem) ==
    IF pos > startpos
    THEN LET parentpos == (pos - 1) \div 2
             parent    == heap[parentpos + 1]
         IN  IF EntryLt(newitem, parent)
             THEN SiftDown([heap EXCEPT ![pos + 1] = parent], startpos, parentpos, newitem)
             ELSE [heap EXCEPT ![pos + 1] = newitem]
    ELSE [heap EXCEPT ![pos + 1] = newitem]

\* the loop of heapq._siftup: bubble the smaller child up until a leaf is hit
RECURSIVE SiftUpLoop(_, _, _, _)
SiftUpLoop(heap, pos, startpos, newitem) ==
    LET endpos   == Len(heap)
        childpos == 2 * pos + 1
    IN  IF childpos < endpos
        THEN LET rightpos == childpos + 1
                 c == IF rightpos < endpos /\ ~EntryLt(heap[childpos + 1], heap[rightpos + 1])
                      THEN rightpos ELSE childpos
             IN  SiftUpLoop([heap EXCEPT ![pos + 1] = heap[c + 1]], c, startpos, newitem)
        ELSE SiftDown([heap EXCEPT ![pos + 1] = newitem], startpos, pos, newitem)

\* a sift that leaves the array as it is
SiftUpSkipped(heap, pos) == heap

\* heapq._siftup(heap, pos)
SiftUp(heap, pos) == SiftUpLoop(heap, pos, pos, heap[pos + 1])

\* a push that forgets to restore the heap order
HeapPushNoSift(heap, item) == Append(heap, item)

\* heapq.heappush(heap, item)
HeapPush(heap, item) ==
    LET h == Append(heap, item) IN SiftDown(h, 0, Len(h) - 1, item)

\* a pop that returns the last element of the array, as list.pop() does
HeapPopLast(heap) == <<heap[Len(heap)], SubSeq(heap, 1, Len(heap) - 1)>>

\* a pop that forgets to move the last element to the root
HeapPopDropLast(heap) == <<heap[1], SubSeq(heap, 1, Len(heap) - 1)>>

\* heapq.heappop(heap) on a non-empty heap: <<returned item, remaining heap>>
HeapPop(heap) ==
    LET lastelt == heap[Len(heap)]
        rest    == SubSeq(heap, 1, Len(heap) - 1)
    IN  IF rest # <<>>
        THEN <<rest[1], SiftUp([rest EXCEPT ![1] = lastelt], 0)>>
        ELSE <<lastelt, rest>>

\* ------------------------------------------------------- the aggregators

\* an add that pushes on a heap whatever the variant
AddEntryAlwaysHeap(q, e) == HeapPush(q, e)

\* LogAggregator.add / NonOrderedLogAggregator.add
AddEntry(q, e) ==
    IF variant = "ordered" THEN HeapPush(q, e) ELSE Append(q, e)

\* NonOrderedLogAggregator.len
AggLen == Len(entries)

\* the entries reader r has passed to add so far, in call order
AddedBy(r) == SelectSeq(added, LAMBDA e : e.fid = r)

\* the number of entries reader r has added, and the timestamp of its last one
AddCount(r) == Len(AddedBy(r))
LastTs(r) == IF AddCount(r) = 0 THEN 1 ELSE AddedBy(r)[AddCount(r)].ts

\* an eof that removes a key derived from len(file_names), not the reader's id
EofSetByLength(open, fid) == open \ {NumReaders - 1}

\* LogAggregator.eof / NonOrderedLogAggregator.eof: self.open_files.remove(fid)
EofSet(open, fid) == open \ {fid}

Init ==
    /\ variant \in {"ordered", "fifo"}
    /\ follow \in BOOLEAN
    /\ entries = <<>>
    /\ open_files = Readers
    /\ cpc = "idle"
    /\ added = <<>>
    /\ yielded = <<>>
    /\ quiescent = FALSE
    /\ eofd = {}
    /\ ReaderIdle

\* Reader r, in the loop of LogReader.run, passes its next entry to add.  Its
\* entries come in file order: timestamps non-decreasing, entry numbers rising.
Add(r) ==
    /\ r \in open_files
    /\ Len(added) < MaxEntries
    /\ \E ts \in LastTs(r) .. MaxTs :
         LET e == LogEntry(ts, r, AddCount(r), "INFO")
         IN  /\ entries' = AddEntry(entries, e)
             /\ added' = Append(added, e)
    /\ UNCHANGED <<variant, follow, open_files, cpc, yielded, quiescent, eofd>>
    /\ UNCHANGED readerVars

\* Reader r has reached the end of its file and is not following: eof(r).
Eof(r) ==
    /\ ~follow
    /\ r \in open_files
    /\ open_files' = EofSet(open_files, r)
    /\ eofd' = eofd \cup {r}
    /\ UNCHANGED <<variant, follow, entries, cpc, added, yielded, quiescent>>
    /\ UNCHANGED readerVars

\* The consumer invokes get() and starts to iterate.
GetStart ==
    /\ cpc = "idle"
    /\ cpc' = IF variant = "ordered" THEN "test_open" ELSE "pop"
    /\ quiescent' = (open_files = {})
    /\ UNCHANGED <<variant, follow, entries, open_files, added, yielded, eofd>>
    /\ UNCHANGED readerVars

\* LogAggregator.get, `while self.open_files or self.entries`: the left operand
GetTestOpen ==
    /\ variant = "ordered"
    /\ cpc = "test_open"
    /\ cpc' = IF open_files # {} THEN "pop" ELSE "test_entries"
    /\ UNCHANGED <<variant, follow, entries, open_files, added, yielded, quiescent, eofd>>
    /\ UNCHANGED readerVars

\* a loop condition that forgets `or self.entries`
GetTestEntriesForgotten ==
    /\ variant = "ordered"
    /\ cpc = "test_entries"
    /\ cpc' = "done"
    /\ UNCHANGED <<variant, follow, entries, open_files, added, yielded, quiescent, eofd>>
    /\ UNCHANGED readerVars

\* ... and the right operand, read only when open_files was empty
GetTestEntries ==
    /\ variant = "ordered"
    /\ cpc = "test_entries"
    /\ cpc' = IF entries # <<>> THEN "pop" ELSE "done"
    /\ UNCHANGED <<variant, follow, entries, open_files, added, yielded, quiescent, eofd>>
    /\ UNCHANGED readerVars

\* LogAggregator.get: heappop and yield, or IndexError on the empty heap
GetPop ==
    /\ variant = "ordered"
    /\ cpc = "pop"
    /\ IF entries # <<>>
       THEN /\ yielded' = Append(yielded, [e |-> HeapPop(entries)[1], stamp |-> Len(added)])
            /\ entries' = HeapPop(entries)[2]
            /\ cpc' = "test_open"
       ELSE /\ cpc' = "sleep"
            /\ UNCHANGED <<entries, yielded>>
    /\ UNCHANGED <<variant, follow, open_files, added, quiescent, eofd>>
    /\ UNCHANGED readerVars

\* LogAggregator.get: time.sleep(self._sleep) is over
GetSleep ==
    /\ variant = "ordered"
    /\ cpc = "sleep"
    /\ cpc' = "test_open"
    /\ UNCHANGED <<variant, follow, entries, open_files, added, yielded, quiescent, eofd>>
    /\ UNCHANGED readerVars

\* NonOrderedLogAggregator.get: popleft and yield, or return on IndexError
FifoPop ==
    /\ variant = "fifo"
    /\ cpc = "pop"
    /\ IF entries # <<>>
       THEN /\ yielded' = Append(yielded, [e |-> Head(entries), stamp |-> Len(added)])
            /\ entries' = Tail(entries)
            /\ cpc' = "pop"
       ELSE /\ cpc' = "done"
            /\ UNCHANGED <<entries, yielded>>
    /\ UNCHANGED <<variant, follow, open_files, added, quiescent, eofd>>
    /\ UNCHANGED readerVars

\* RedisOutputThread.run: after its pause it runs get() again when len() > 0
FifoRestart ==
    /\ variant = "fifo"
    /\ cpc = "done"
    /\ AggLen > 0
    /\ cpc' = "pop"
    /\ UNCHANGED <<variant, follow, entries, open_files, added, yielded, quiescent, eofd>>
    /\ UNCHANGED readerVars

Consumer ==
    GetStart \/ GetTestOpen \/ GetTestEntries \/ GetPop \/ GetSleep \/ FifoPop \/ FifoRestart

Next ==
    \/ \E r \in Readers : Add(r)
    \/ \E r \in Readers : Eof(r)
    \/ GetStart
    \/ GetTestOpen
    \/ GetTestEntries
    \/ GetPop
    \/ GetSleep
    \/ FifoPop
    \/ FifoRestart

Spec == Init /\ [][Next]_vars

\* The consumer thread is scheduled again and again, and its sleep ends.
FairSpec == Spec /\ WF_vars(Consumer)

\* ================================================================ reader

\* A line of a log file.  "H": a header line the configured parser accepts,
\* with its timestamp and level; "C": a line that does not start with "20".
\* All lines have the same length, so a file position is a number of lines.
HeaderLine(ts, level) == [kind |-> "H", ts |-> ts, level |-> level]
ContinuationLine == [kind |-> "C", ts |-> 0, level |-> ""]
LineShapes == {HeaderLine(0, l) : l \in Levels} \cup {ContinuationLine}

\* header lines carry the time they were written at: a shape becomes a line
Stamped(shape, ts) == IF shape.kind = "H" THEN [shape EXCEPT !.ts = ts] ELSE shape
InitialContents ==
    {[k \in 1 .. Len(q) |-> Stamped(q[k], k)] :
        q \in UNION {[1 .. m -> LineShapes] : m \in 0 .. MaxLines}}
\* a line written later carries a later time
NextTs == MaxLines + envSteps + 1

\* Log4jParser._is_continuation_line; `line` is a line read, the empty sequence
\* of lines standing for the '' readline() returns at the end of the file
IsContinuationLine(line) == line # <<>> /\ line[1].kind = "C"

\* logfile.readline() on handle h: <<the line>>, or <<>> at the end of the file
ReadLine(h) ==
    IF h.pos < Len(fcontent[h.ino]) THEN <<fcontent[h.ino][h.pos + 1]>> ELSE <<>>

\* a message that takes every line up to the end of the file
ReadMessageToEnd(content, pos) == Len(content)

\* Log4jParser._read_message: the position after the continuation lines that
\* follow position pos (the line that ends the message is put back)
RECURSIVE ReadMessageEnd(_, _)
ReadMessageEnd(content, pos) ==
    IF pos < Len(content) /\ IsContinuationLine(<<content[pos + 1]>>)
    THEN ReadMessageEnd(content, pos + 1)
    ELSE pos

\* a filter that lets every entry pass
MatchesAlways(lvls, entry) == TRUE

\* LogFilter.matches of logreader.py, with grep, time_from and time_to None
Matches(lvls, entry) == lvls = {} \/ entry.level \in lvls

\* an identity no file of the model has: that of a file rotated away earlier
StaleId == MaxInodes + 1
\* the records an earlier run of the reader may have left for a file with
\* this content: its identity or a stale one, a position at a line boundary
StoredProgress(content) ==
    {<<[id |-> i, pos |-> (Len(content) + 1) \div 2, size |-> Len(content)]>> :
        i \in {1, StaleId}}

\* the reader of this specification: LogReader(0, path, parser, aggregator,
\* tail_length, follow, LogFilter(levels)), no progress file, no time_from
reader_id == 0

ReaderInit ==
    /\ variant = "ordered"
    /\ follow \in BOOLEAN
    /\ entries = <<>>
    /\ open_files = {reader_id}
    /\ cpc = "idle"
    /\ added = <<>>
    /\ yielded = <<>>
    /\ quiescent = FALSE
    /\ eofd = {}
    /\ path_ino = 1
    /\ \E c \in InitialContents : fcontent = [f \in Inodes |-> IF f = 1 THEN c ELSE <<>>]
    /\ envSteps = 0
    /\ rpc = "start"
    /\ handles = <<>>
    /\ logfile_self = 0
    /\ logfile_local = 0
    /\ logfile_id = 0
    /\ last_ensure = 0
    /\ now = StartTime
    /\ entry_count = 0
    /\ parser_i = 0
    /\ stat_results = [ino |-> 0, size |-> 0]
    /\ hk_ret = "loop"
    /\ tail_length \in {NoTail, 0}
    /\ levels \in {{}, {"ERROR"}}
    /\ sent = <<>>
    /\ started = FALSE
    /\ modified = FALSE
    /\ progress_file_path \in BOOLEAN
    /\ progress_exists \in IF progress_file_path THEN BOOLEAN ELSE {FALSE}
    /\ progress_file \in IF progress_exists THEN {<<>>} \cup StoredProgress(fcontent[1])
                        ELSE {<<>>}
    /\ last_save = 0
    /\ logged = <<>>
    /\ truncated = "no"
    /\ remaining = 0
    /\ hk_calls = 0
    /\ progress_log = <<>>
    /\ restarts = 0
    /\ call = NoCall
    /\ ret = <<>>

\* ---- other processes change the file

EnvAlive == envSteps < MaxEnvSteps /\ rpc \notin {"off", "done", "crashed"}
ReaderHasOpen(f) == \E k \in 1 .. Len(handles) : handles[k].ino = f

envFrame == <<aggVars, rpc, handles, logfile_self, logfile_local, logfile_id, last_ensure,
              now, entry_count, parser_i, stat_results, hk_ret, tail_length, levels,
              sent, started, progress_file_path, progress_file, last_save, logged,
              remaining, hk_calls, progress_exists, progress_log, restarts, call, ret>>

\* a writer appends one line to the file at the path
EnvAppend ==
    /\ EnvAlive
    /\ path_ino # 0
    /\ \E shape \in LineShapes :
         fcontent' = [fcontent EXCEPT ![path_ino] = Append(@, Stamped(shape, NextTs))]
    /\ modified' = (modified \/ ReaderHasOpen(path_ino))
    /\ envSteps' = envSteps + 1
    /\ UNCHANGED <<path_ino, truncated, envFrame>>

\* the file at the path is truncated in place
EnvTruncate ==
    /\ EnvAlive
    /\ path_ino # 0
    /\ fcontent[path_ino] # <<>>
    /\ fcontent' = [fcontent EXCEPT ![path_ino] = <<>>]
    /\ modified' = (modified \/ ReaderHasOpen(path_ino))
    /\ envSteps' = envSteps + 1
    /\ truncated' = IF started /\ logfile_self # 0 /\ handles[logfile_self].ino = path_ino
                    THEN "pending" ELSE truncated
    /\ UNCHANGED <<path_ino, envFrame>>

\* an inode number no file had before
NewInode == envSteps + 2

\* the file is rotated away (or was removed) and a new, empty file is created
EnvReplace ==
    /\ EnvAlive
    /\ path_ino' = NewInode
    /\ envSteps' = envSteps + 1
    /\ UNCHANGED <<fcontent, modified, truncated, envFrame>>

\* the file at the path is removed
EnvRemove ==
    /\ EnvAlive
    /\ path_ino # 0
    /\ path_ino' = 0
    /\ envSteps' = envSteps + 1
    /\ UNCHANGED <<fcontent, modified, truncated, envFrame>>


\* ---- the reader thread: LogReader.run

fsVars == <<path_ino, fcontent, envSteps, modified>>
cfgVars == <<variant, follow, cpc, yielded, quiescent, tail_length, levels,
             progress_file_path, remaining, hk_calls, restarts, call, ret>>
hkVars == <<progress_file, progress_exists, progress_log, last_save, logged, truncated>>
aggQueue == <<entries, open_files, added, eofd, sent>>

\* io.open(self.logfile_name, 'rb') succeeds when the path names a file
OpenOk == path_ino # 0
\* a close that leaves the file object open
CloseFileNot(h) == h
\* _close_file: self.logfile.close()
CloseFile(h) == [h EXCEPT ![logfile_self].closed = TRUE]
\* the file object _open_file makes, added to the objects h
Opened(h) == Append(h, [ino |-> path_ino, pos |-> 0, closed |-> FALSE])

\* run(): self._open_file(); an IOError is logged and raised
OpenFile ==
    /\ rpc = "start"
    /\ IF OpenOk
       THEN /\ handles' = Opened(handles)
            /\ logfile_self' = Len(handles) + 1
            /\ logfile_id' = path_ino
            /\ rpc' = "autoconfigure"
       ELSE /\ rpc' = "crashed"
            /\ UNCHANGED <<handles, logfile_self, logfile_id>>
    /\ UNCHANGED <<fsVars, cfgVars, hkVars, aggQueue, logfile_local, last_ensure, now, entry_count,
                   parser_i, stat_results, hk_ret, started>>

\* run(): self.parser.autoconfigure(self.logfile) reads the first line, seeks
\* to 0 and raises when that line has no code location in columns 1..3
Autoconfigure ==
    /\ rpc = "autoconfigure"
    /\ LET sample_line == ReadLine(handles[logfile_self])
       IN  rpc' = IF sample_line # <<>> /\ sample_line[1].kind = "H" THEN "seek" ELSE "crashed"
    /\ handles' = [handles EXCEPT ![logfile_self].pos = 0]
    /\ UNCHANGED <<fsVars, cfgVars, hkVars, aggQueue, logfile_self, logfile_local, logfile_id,
                   last_ensure, now, entry_count, parser_i, stat_results, hk_ret, started>>

\* a failure that is not logged
LogLoadFailedNot == <<>>
LogLoadFailed == <<"[WARN] Failed to read the progress file">>
LogResumed == <<"[INFO] Resumed reading">>
\* _seek_first_unprocessed_position: a progress file that loads gives the
\* identity and the position; one that does not load is logged. The value is
\* <<self.logfile_id, the file objects, the records logged>> afterwards.
\* (SeekKeepingIdentity: a seek that keeps the identity of the file opened.)
SeekKeepingIdentity(h) ==
    IF progress_file # <<>>
    THEN <<logfile_id, [h EXCEPT ![logfile_self].pos = progress_file[1].pos], LogResumed>>
    ELSE <<logfile_id, h, LogLoadFailed>>
SeekFirstUnprocessedPosition(h) ==
    IF progress_file # <<>>
    THEN <<progress_file[1].id, [h EXCEPT ![logfile_self].pos = progress_file[1].pos],
           LogResumed>>
    ELSE <<logfile_id, h, LogLoadFailed>>

\* run(): self._seek_position(), with tail_length None or 0 and no time_from,
\* and then `logfile = self.logfile`
SeekPosition ==
    /\ rpc = "seek"
    /\ IF progress_file_path
       THEN /\ logfile_id' = SeekFirstUnprocessedPosition(handles)[1]
            /\ handles' = SeekFirstUnprocessedPosition(handles)[2]
            /\ progress_log' = SeekFirstUnprocessedPosition(handles)[3]
       ELSE /\ logfile_id' = logfile_id
            /\ progress_log' = progress_log
            /\ handles' = IF tail_length = 0
                          THEN [handles EXCEPT
                                  ![logfile_self].pos = Len(fcontent[handles[logfile_self].ino])]
                          ELSE handles
    /\ logfile_local' = logfile_self
    /\ started' = TRUE
    /\ rpc' = "loop"
    /\ UNCHANGED <<fsVars, cfgVars, progress_file, progress_exists, last_save, logged,
                   truncated, aggQueue, logfile_self, last_ensure, now,
                   entry_count, parser_i, stat_results, hk_ret>>

\* run(), top of `while True`: entry_count = 0, and parser.read(reader_id,
\* logfile) makes a new generator, whose i starts at 0
LoopTop ==
    /\ rpc = "loop"
    /\ entry_count' = 0
    /\ parser_i' = 0
    /\ rpc' = "read"
    /\ UNCHANGED <<fsVars, cfgVars, hkVars, aggQueue, handles, logfile_self, logfile_local, logfile_id,
                   last_ensure, now, stat_results, hk_ret, started>>

\* Log4jParser.read: logfile.readline() on a closed file raises ValueError,
\* which nothing catches
ReadClosed ==
    /\ rpc = "read"
    /\ handles[logfile_local].closed
    /\ rpc' = "crashed"
    /\ UNCHANGED <<fsVars, cfgVars, hkVars, aggQueue, handles, logfile_self, logfile_local, logfile_id,
                   last_ensure, now, entry_count, parser_i, stat_results, hk_ret, started>>

\* Log4jParser.read: readline() returns '', the generator ends
ReadEof ==
    /\ rpc = "read"
    /\ ~handles[logfile_local].closed
    /\ ReadLine(handles[logfile_local]) = <<>>
    /\ rpc' = "pass_end"
    /\ UNCHANGED <<fsVars, cfgVars, hkVars, aggQueue, handles, logfile_self, logfile_local, logfile_id,
                   last_ensure, now, entry_count, parser_i, stat_results, hk_ret, started>>

\* Log4jParser.read: a line that does not start with "20" is logged and skipped (`continue`, so i stays)
SkipLine ==
    /\ rpc = "read"
    /\ ~handles[logfile_local].closed
    /\ ReadLine(handles[logfile_local]) # <<>>
    /\ ReadLine(handles[logfile_local])[1].kind # "H"
    /\ handles' = [handles EXCEPT ![logfile_local].pos = @ + 1]
    /\ UNCHANGED <<fsVars, cfgVars, hkVars, aggQueue, rpc, logfile_self, logfile_local, logfile_id,
                   last_ensure, now, entry_count, parser_i, stat_results, hk_ret, started>>

\* run(): `if entry_count & 1023 == 0`
HousekeepingDue(n) == n % (HousekeepingMask + 1) = 0

\* Log4jParser.read yields an entry, and the body of the for loop of run():
\* add it when the filter matches, count it, housekeeping every 1024 entries
ReadEntry ==
    /\ rpc = "read"
    /\ ~handles[logfile_local].closed
    /\ ReadLine(handles[logfile_local]) # <<>>
    /\ ReadLine(handles[logfile_local])[1].kind = "H"
    /\ LET h     == handles[logfile_local]
           line  == ReadLine(h)[1]
           entry == LogEntry(line.ts, reader_id, parser_i, line.level)
       IN  /\ handles' = [handles EXCEPT
                            ![logfile_local].pos = ReadMessageEnd(fcontent[h.ino], h.pos + 1)]
           /\ IF Matches(levels, entry)
              THEN /\ entries' = AddEntry(entries, entry)
                   /\ added' = Append(added, entry)
                   /\ sent' = Append(sent, [op |-> "add", fid |-> reader_id, e |-> entry])
              ELSE UNCHANGED <<entries, added, sent>>
    /\ entry_count' = entry_count + 1
    /\ parser_i' = parser_i + 1
    /\ IF HousekeepingDue(entry_count + 1)
       THEN rpc' = "hk" /\ hk_ret' = "read"
       ELSE rpc' = "read" /\ hk_ret' = hk_ret
    /\ UNCHANGED <<fsVars, cfgVars, hkVars, open_files, eofd, logfile_self, logfile_local, logfile_id,
                   last_ensure, now, stat_results, started>>

\* run(): `if not self.follow: receiver.eof(reader_id); break`
SignalEof ==
    /\ rpc = "pass_end"
    /\ ~follow
    /\ open_files' = EofSet(open_files, reader_id)
    /\ eofd' = eofd \cup {reader_id}
    /\ sent' = Append(sent, [op |-> "eof", fid |-> reader_id, e |-> LogEntry(0, reader_id, 0, "")])
    /\ rpc' = "done"
    /\ UNCHANGED <<fsVars, cfgVars, hkVars, entries, added, handles, logfile_self, logfile_local,
                   logfile_id, last_ensure, now, entry_count, parser_i, stat_results, hk_ret,
                   started>>

\* run(), follow mode, the pass read entries: straight to the next pass
NextPass ==
    /\ rpc = "pass_end"
    /\ follow
    /\ entry_count # 0
    /\ rpc' = "loop"
    /\ UNCHANGED <<fsVars, cfgVars, hkVars, aggQueue, handles, logfile_self, logfile_local, logfile_id,
                   last_ensure, now, entry_count, parser_i, stat_results, hk_ret, started>>

\* run(), follow mode, the pass read nothing: sleep, then housekeeping
SleepThenHousekeeping ==
    /\ rpc = "pass_end"
    /\ follow
    /\ entry_count = 0
    /\ rpc' = "hk"
    /\ hk_ret' = "loop"
    /\ UNCHANGED <<fsVars, cfgVars, hkVars, aggQueue, handles, logfile_self, logfile_local, logfile_id,
                   last_ensure, now, entry_count, parser_i, stat_results, started>>

\* two records for one removal
LogRemovedTwice == <<"[INFO] removed", "[INFO] removed">>
\* what _ensure_file_is_good logs when os.stat raises OSError
LogRemoved == <<"[INFO] removed">>
\* what _ensure_file_is_good, _close_file and _open_file log on a rotation
LogRotated == <<"[INFO] rotated", "[INFO] Closed", "[INFO] Opened">>
LogRotatedOpenFailed == <<"[INFO] rotated", "[INFO] Closed", "[ERROR] Failed to open">>
\* what _ensure_file_is_good logs on a truncation
LogTruncated == <<"[INFO] truncated">>

\* a test that also fires at the end of the file
TruncatedOrAtEnd(current_position, file_size) == current_position >= file_size
\* _ensure_file_is_good: `elif current_position > file_size`
Truncated(current_position, file_size) == current_position > file_size

\* a gate that opens one second early
SaveDueAtInterval(t) == t - last_save >= SAVE_PROGRESS_CALL_INTERVAL
\* _maybe_do_housekeeping: the two gates on current_timestamp
EnsureDue(t) == t - last_ensure > ENSURE_FILE_IS_GOOD_CALL_INTERVAL
SaveDue(t) == t - last_save > SAVE_PROGRESS_CALL_INTERVAL

\* _maybe_do_housekeeping, `if self.progress_file_path:` after the health check
AfterEnsure == IF progress_file_path THEN "hk_save" ELSE hk_ret

\* _maybe_do_housekeeping(time.time()): when more than the interval has passed,
\* _ensure_file_is_good, up to os.stat(self.logfile_name), whose OSError is
\* logged
MaybeDoHousekeeping ==
    /\ rpc = "hk"
    /\ \E t \in now .. MaxTime :
         /\ now' = t
         /\ IF EnsureDue(t)
            THEN /\ last_ensure' = t
                 /\ IF path_ino = 0
                    THEN /\ rpc' = AfterEnsure
                         /\ logged' = LogRemoved
                         /\ UNCHANGED <<stat_results, truncated>>
                    ELSE /\ rpc' = "hk_check"
                         /\ logged' = <<>>
                         /\ stat_results' = [ino |-> path_ino, size |-> Len(fcontent[path_ino])]
                         /\ truncated' = IF truncated = "pending"
                                            /\ handles[logfile_self].ino = path_ino
                                         THEN "seen" ELSE truncated
            ELSE /\ rpc' = AfterEnsure
                 /\ UNCHANGED <<last_ensure, stat_results, truncated, logged>>
    /\ UNCHANGED <<fsVars, cfgVars, progress_file, progress_exists, progress_log, last_save,
                   aggQueue, handles, logfile_self,
                   logfile_local, logfile_id, entry_count, parser_i, hk_ret, started>>

\* _ensure_file_is_good, the else branch: rotated (close, open again),
\* truncated (seek to 0), or good
EnsureCheck ==
    /\ rpc = "hk_check"
    /\ LET expected_logfile_id == logfile_id
           actual_logfile_id   == stat_results.ino
           current_position    == handles[logfile_self].pos
           file_size           == stat_results.size
           closed              == CloseFile(handles)
       IN  IF expected_logfile_id # actual_logfile_id
           THEN /\ truncated' = "no"
                /\ IF OpenOk
                   THEN /\ handles' = Opened(closed)
                        /\ logfile_self' = Len(handles) + 1
                        /\ logfile_id' = path_ino
                        /\ logged' = LogRotated
                        /\ rpc' = AfterEnsure
                   ELSE /\ handles' = closed
                        /\ logfile_self' = 0
                        /\ logfile_id' = logfile_id
                        /\ logged' = LogRotatedOpenFailed
                        /\ rpc' = "crashed"
           ELSE /\ IF Truncated(current_position, file_size)
                   THEN /\ handles' = [handles EXCEPT ![logfile_self].pos = 0]
                        /\ logged' = LogTruncated
                   ELSE /\ handles' = handles
                        /\ logged' = <<>>
                /\ truncated' = IF truncated = "seen" THEN "no" ELSE truncated
                /\ rpc' = AfterEnsure
                /\ UNCHANGED <<logfile_self, logfile_id>>
    /\ stat_results' = [ino |-> 0, size |-> 0]
    /\ UNCHANGED <<fsVars, cfgVars, progress_file, progress_exists, progress_log, last_save,
                   aggQueue, logfile_local,
                   last_ensure, now, entry_count, parser_i, hk_ret, started>>

\* _make_progress_string: the identity stored, the position of self.logfile
\* and the size fstat reports for it
MakeProgress ==
    [id   |-> logfile_id,
     pos  |-> handles[logfile_self].pos,
     size |-> Len(fcontent[handles[logfile_self].ino])]

\* _maybe_do_housekeeping, the second gate: _save_progress when more than the
\* interval has passed since the last one
\* How a call of _save_progress can end: the record is written; tell() or
\* fstat() raises, so there is nothing to write; open() raises; open() has
\* made or emptied the file and write() or close() raises (a full disk).
SaveOutcomes == {"written", "no_data", "open_failed", "write_failed"}
LogWriting == <<"[DEBUG] Writing progress file entry">>
LogGatherFailed == <<"[ERROR] Failed to gather progress information">>
LogSaveFailed == <<"[DEBUG] Writing progress file entry", "[ERROR] Failed to save progress">>
\* _save_progress: [exists, file, log] afterwards
SaveProgressResult(outcome) ==
    CASE outcome = "written" ->
           [exists |-> TRUE, file |-> <<MakeProgress>>, log |-> LogWriting]
      [] outcome = "no_data" ->
           [exists |-> progress_exists, file |-> progress_file, log |-> LogGatherFailed]
      [] outcome = "open_failed" ->
           [exists |-> progress_exists, file |-> progress_file, log |-> LogSaveFailed]
      [] outcome = "write_failed" ->
           [exists |-> TRUE, file |-> <<>>, log |-> LogSaveFailed]

MaybeSaveProgress ==
    /\ rpc = "hk_save"
    /\ IF SaveDue(now)
       THEN /\ last_save' = now
            /\ \E outcome \in SaveOutcomes :
                 /\ progress_file' = SaveProgressResult(outcome).file
                 /\ progress_exists' = SaveProgressResult(outcome).exists
                 /\ progress_log' = SaveProgressResult(outcome).log
       ELSE UNCHANGED <<last_save, progress_file, progress_exists, progress_log>>
    /\ rpc' = hk_ret
    /\ UNCHANGED <<fsVars, cfgVars, logged, truncated, aggQueue, handles, logfile_self,
                   logfile_local, logfile_id, last_ensure, now, entry_count, parser_i,
                   stat_results, hk_ret, started>>

ReaderNext ==
    \/ OpenFile
    \/ Autoconfigure
    \/ SeekPosition
    \/ LoopTop
    \/ ReadClosed
    \/ ReadEof
    \/ SkipLine
    \/ ReadEntry
    \/ SignalEof
    \/ NextPass
    \/ SleepThenHousekeeping
    \/ MaybeDoHousekeeping
    \/ EnsureCheck
    \/ MaybeSaveProgress
    \/ EnvAppend
    \/ EnvTruncate
    \/ EnvReplace
    \/ EnvRemove

ReaderSpec == ReaderInit /\ [][ReaderNext]_vars

\* the steps of the reader thread
ReaderThread ==
    \/ OpenFile
    \/ Autoconfigure
    \/ SeekPosition
    \/ LoopTop
    \/ ReadClosed
    \/ ReadEof
    \/ SkipLine
    \/ ReadEntry
    \/ SignalEof
    \/ NextPass
    \/ SleepThenHousekeeping
    \/ MaybeDoHousekeeping
    \/ EnsureCheck
    \/ MaybeSaveProgress

\* The reader thread is scheduled again and again, and its sleep ends.
ReaderFairSpec == ReaderSpec /\ WF_vars(ReaderThread)

\* ------------------------------------------------ the reader, stopped and started again
\* RestartSpec: the process of the reader is ended at any point and a new one
\* is started on the same path with the same options and progress file path.
\* What is on disk stays (the log file, the progress file), as does the record
\* of what was delivered; every object of the process starts anew.

Restart ==
    /\ restarts < MaxRestarts
    /\ rpc # "start"
    /\ restarts' = restarts + 1
    /\ rpc' = "start"
    /\ handles' = <<>>
    /\ logfile_self' = 0
    /\ logfile_local' = 0
    /\ logfile_id' = 0
    /\ last_ensure' = 0
    /\ last_save' = 0
    /\ entry_count' = 0
    /\ parser_i' = 0
    /\ stat_results' = [ino |-> 0, size |-> 0]
    /\ hk_ret' = "loop"
    /\ started' = FALSE
    /\ truncated' = "no"
    /\ progress_log' = <<>>
    /\ entries' = <<>>
    /\ open_files' = {reader_id}
    /\ eofd' = {}
    /\ UNCHANGED <<fsVars, variant, follow, cpc, yielded, quiescent, tail_length, levels,
                   progress_file_path, remaining, hk_calls, call, ret,
                   progress_file, progress_exists, logged, added, sent, now>>

\* a reader with a progress file path and no filter, no progress file yet
RestartInit ==
    /\ ReaderInit
    /\ progress_file_path
    /\ ~progress_exists
    /\ levels = {}
    /\ tail_length = NoTail

RestartNext ==
    \/ ReaderNext
    \/ Restart

RestartSpec == RestartInit /\ [][RestartNext]_vars

\* ------------------------------------------------ several readers, one drain
\* StartupSpec runs the reader with id 0 through run() in non-follow mode next
\* to the other reader threads, which add their entries and signal eof, and to
\* the consumer of LogAggregator.get.  The file of reader 0 may be missing,
\* empty or begin with a line that autoconfigure rejects.

StartupInit ==
    /\ variant = "ordered"
    /\ follow = FALSE
    /\ entries = <<>>
    /\ open_files = Readers
    /\ cpc = "idle"
    /\ added = <<>>
    /\ yielded = <<>>
    /\ quiescent = FALSE
    /\ eofd = {}
    /\ path_ino \in {0, 1}
    /\ \E c \in InitialContents :
         fcontent = [f \in Inodes |-> IF f = 1 /\ path_ino = 1 THEN c ELSE <<>>]
    /\ envSteps = 0
    /\ rpc = "start"
    /\ handles = <<>>
    /\ logfile_self = 0
    /\ logfile_local = 0
    /\ logfile_id = 0
    /\ last_ensure = 0
    /\ now = StartTime
    /\ entry_count = 0
    /\ parser_i = 0
    /\ stat_results = [ino |-> 0, size |-> 0]
    /\ hk_ret = "loop"
    /\ tail_length = NoTail
    /\ levels = {}
    /\ sent = <<>>
    /\ started = FALSE
    /\ modified = FALSE
    /\ progress_file_path = FALSE
    /\ progress_file = <<>>
    /\ last_save = 0
    /\ logged = <<>>
    /\ truncated = "no"
    /\ remaining = 0
    /\ hk_calls = 0
    /\ progress_exists = FALSE
    /\ progress_log = <<>>
    /\ restarts = 0
    /\ call = NoCall
    /\ ret = <<>>

\* the reader threads other than reader 0
OtherReaders == \E r \in Readers \ {reader_id} : Add(r) \/ Eof(r)

\* run() of reader 0 in non-follow mode without a progress file.  Nobody else
\* touches the file here, so the read never meets a closed file or a line to
\* skip (ReadClosed, SkipLine), and housekeeping never comes due.
StartupReader ==
    \/ OpenFile
    \/ Autoconfigure
    \/ SeekPosition
    \/ LoopTop
    \/ ReadEof
    \/ ReadEntry
    \/ SignalEof

\* the loop of LogAggregator.get
OrderedConsumer == GetStart \/ GetTestOpen \/ GetTestEntries \/ GetPop \/ GetSleep

StartupNext ==
    \/ OpenFile
    \/ Autoconfigure
    \/ SeekPosition
    \/ LoopTop
    \/ ReadEof
    \/ ReadEntry
    \/ SignalEof
    \/ \E r \in Readers \ {reader_id} : Add(r)
    \/ \E r \in Readers \ {reader_id} : Eof(r)
    \/ GetStart
    \/ GetTestOpen
    \/ GetTestEntries
    \/ GetPop
    \/ GetSleep

StartupSpec == StartupInit /\ [][StartupNext]_vars

\* Every thread is scheduled again and again, and the consumer's sleep ends.
StartupFairSpec ==
    StartupSpec /\ WF_vars(StartupReader) /\ WF_vars(OtherReaders) /\ WF_vars(OrderedConsumer)

\* ------------------------------------------------ following a growing file
\* FollowSpec: the reader in follow mode, without a progress file, on a file
\* that other processes only append to.  The file is never replaced, so the
\* reader never reopens it and never reads a closed file (ReadClosed), and
\* housekeeping has no progress to save.

FollowInit == ReaderInit /\ follow /\ ~progress_file_path

FollowNext ==
    \/ OpenFile
    \/ Autoconfigure
    \/ SeekPosition
    \/ LoopTop
    \/ ReadEof
    \/ SkipLine
    \/ ReadEntry
    \/ NextPass
    \/ SleepThenHousekeeping
    \/ MaybeDoHousekeeping
    \/ EnsureCheck
    \/ EnvAppend

FollowSpec == FollowInit /\ [][FollowNext]_vars

\* The reader thread is scheduled again and again, and its sleep ends.
FollowFairSpec == FollowSpec /\ WF_vars(ReaderThread)

\* ------------------------------------------------ the loop of run() alone
\* LoopSpec follows the loop of LogReader.run over a file of which only the
\* number of entries still to be read is kept: long files, and a writer that
\* never stops, fit into it.

loopFrame == <<variant, follow, entries, open_files, cpc, added, yielded, quiescent, eofd,
               path_ino, fcontent, envSteps, handles, logfile_self, logfile_local,
               logfile_id, last_ensure, now, stat_results, tail_length, levels, sent,
               started, modified, progress_file_path, progress_file, last_save, logged,
               truncated, progress_exists, progress_log, restarts, call, ret>>

LoopInit ==
    /\ variant = "ordered"
    /\ follow \in BOOLEAN
    /\ entries = <<>>
    /\ open_files = {reader_id}
    /\ cpc = "idle"
    /\ added = <<>>
    /\ yielded = <<>>
    /\ quiescent = FALSE
    /\ eofd = {}
    /\ path_ino = 1
    /\ fcontent = [f \in Inodes |-> <<>>]
    /\ envSteps = 0
    /\ rpc = "loop"
    /\ handles = <<>>
    /\ logfile_self = 0
    /\ logfile_local = 0
    /\ logfile_id = 0
    /\ last_ensure = 0
    /\ now = StartTime
    /\ entry_count = 0
    /\ parser_i = 0
    /\ stat_results = [ino |-> 0, size |-> 0]
    /\ hk_ret = "loop"
    /\ tail_length = NoTail
    /\ levels = {}
    /\ sent = <<>>
    /\ started = TRUE
    /\ modified = FALSE
    /\ progress_file_path = FALSE
    /\ progress_file = <<>>
    /\ last_save = 0
    /\ logged = <<>>
    /\ truncated = "no"
    /\ remaining \in IF follow THEN 0 .. MaxArrive ELSE RunLengths
    /\ hk_calls = 0
    /\ progress_exists = FALSE
    /\ progress_log = <<>>
    /\ restarts = 0
    /\ call = NoCall
    /\ ret = <<>>

\* a writer appends one record; a read pass meets at most MaxArrive of them
Arrive ==
    /\ follow
    /\ entry_count + remaining < MaxArrive
    /\ remaining' = remaining + 1
    /\ UNCHANGED <<loopFrame, rpc, entry_count, parser_i, hk_ret, hk_calls>>

\* run(), the body of the for loop for one entry the parser yields:
\* entry_count += 1, housekeeping when entry_count & 1023 == 0
LoopEntry ==
    /\ rpc = "read"
    /\ remaining > 0
    /\ remaining' = remaining - 1
    /\ entry_count' = entry_count + 1
    /\ parser_i' = parser_i + 1
    /\ IF HousekeepingDue(entry_count + 1)
       THEN rpc' = "hk" /\ hk_ret' = "read"
       ELSE rpc' = "read" /\ hk_ret' = hk_ret
    /\ UNCHANGED <<loopFrame, hk_calls>>

\* the parser's generator ends at the end of the file
LoopEof ==
    /\ rpc = "read"
    /\ remaining = 0
    /\ rpc' = "pass_end"
    /\ UNCHANGED <<loopFrame, entry_count, parser_i, hk_ret, remaining, hk_calls>>

\* a call self._maybe_do_housekeeping(time.time()) of run()
LoopHousekeeping ==
    /\ rpc = "hk"
    /\ hk_calls' = IF hk_calls < MaxCalls THEN hk_calls + 1 ELSE hk_calls
    /\ rpc' = hk_ret
    /\ UNCHANGED <<loopFrame, entry_count, parser_i, hk_ret, remaining>>

LoopThread ==
    \/ LoopTop
    \/ LoopEntry
    \/ LoopEof
    \/ SignalEof
    \/ NextPass
    \/ SleepThenHousekeeping
    \/ LoopHousekeeping

LoopNext ==
    \/ LoopTop
    \/ LoopEntry
    \/ LoopEof
    \/ SignalEof
    \/ NextPass
    \/ SleepThenHousekeeping
    \/ LoopHousekeeping
    \/ Arrive

LoopSpec == LoopInit /\ [][LoopNext]_vars

\* The reader thread is scheduled again and again, and its sleep ends.
LoopFairSpec == LoopSpec /\ WF_vars(LoopThread)


\* ============================================================ functions
\* FnSpec calls the functions of the reader and the parser that compute a
\* result from a file alone, on files and arguments drawn from bounded sets.

\* LogReader.CHUNK_SIZE
CHUNK_SIZE == 1024

Min(a, b) == IF a < b THEN a ELSE b
Max(a, b) == IF a > b THEN a ELSE b

\* ---- a file as bytes
\* A file is the sequence of its lines; a line is [kind, len, ts]: len is its
\* length in bytes, the '\n' that ends it included, kind "H" marks a line whose
\* bytes 0..1 are "20" and whose byte 23 is a space, ts is the text of its
\* first 23 bytes.  The bytes of a message never look like such a line start.
RECURSIVE LineStart(_, _)
\* the byte offset of line k (from 1); LineStart(f, Len(f) + 1) is the size
LineStart(f, k) == IF k = 1 THEN 0 ELSE LineStart(f, k - 1) + f[k - 1].len
FileSize(f) == LineStart(f, Len(f) + 1)
\* the byte offsets of the '\n' bytes
Newlines(f) == {LineStart(f, k + 1) - 1 : k \in 1 .. Len(f)}

\* Python's None as a slice bound or a position
None == -2
\* the index a slice or a search on a string of length n stops at, for the
\* bound `stop`: None is the end, a negative bound counts from the end
SliceEnd(n, stop) ==
    IF stop = None THEN n ELSE IF stop < 0 THEN Max(0, n + stop) ELSE Min(stop, n)

\* A string cut from the file: the bytes lo .. hi - 1 of it.
Bytes(lo, hi) == [lo |-> lo, hi |-> Max(lo, hi)]
StrLen(s) == s.hi - s.lo
\* logfile.seek(offset); logfile.read(size)
Read(f, offset, size) == Bytes(Min(offset, FileSize(f)), Min(offset + size, FileSize(f)))
\* s + t, where t holds the bytes that follow those of s in the file
Concat(s, t) == IF StrLen(t) = 0 THEN s ELSE IF StrLen(s) = 0 THEN t ELSE Bytes(s.lo, t.hi)
\* a slice that is always empty
PrefixDropped(s, stop) == Bytes(s.lo, s.lo)
\* s[:stop]
Prefix(s, stop) == Bytes(s.lo, s.lo + SliceEnd(StrLen(s), stop))
\* s[start:stop]
Slice(s, start, stop) == Bytes(s.lo + Min(start, StrLen(s)), s.lo + SliceEnd(StrLen(s), stop))
\* s.rfind('\n', 0, stop)
RFind(f, s, stop) ==
    LET found == {q \in Newlines(f) : s.lo <= q /\ q < s.lo + SliceEnd(StrLen(s), stop)}
    IN  IF found = {} THEN -1
        ELSE (CHOOSE q \in found : \A r \in found : r <= q) - s.lo

\* s.startswith('20') and s[23:24] == ' ': s begins at the start of an "H"
\* line and holds its first 24 bytes
LooksLikeHeader(f, s) ==
    \E k \in 1 .. Len(f) : LineStart(f, k) = s.lo /\ f[k].kind = "H" /\ StrLen(s) >= 24

\* parser.is_continuation_line(line): a non-empty line that is not a header line
is_continuation_line(f, line) == StrLen(line) > 0 /\ ~LooksLikeHeader(f, line)

\* ---- LogReader._seek_tail

\* chunk_count = (file_size // CHUNK_SIZE) + bool(file_size % CHUNK_SIZE)
ChunkCount(file_size) ==
    (file_size \div CHUNK_SIZE) + (IF file_size % CHUNK_SIZE # 0 THEN 1 ELSE 0)

\* the while loop of _seek_tail over the newlines of one chunk, from the last
\* one down: [returned, position] when the tail_length-th header line is
\* found, else the values the loop leaves
RECURSIVE SeekTailWhile(_, _, _, _, _, _, _)
SeekTailWhile(f, n, chunk_index, chunk, previous_newline_position, current_newline_position, newline_count) ==
    IF current_newline_position = -1
    THEN [returned |-> FALSE, previous_newline_position |-> previous_newline_position,
          newline_count |-> newline_count]
    ELSE LET line == Slice(chunk, current_newline_position + 1, previous_newline_position)
             counted == ~is_continuation_line(f, line)
             count == IF counted THEN newline_count + 1 ELSE newline_count
         IN  IF counted /\ count >= n
             THEN [returned |-> TRUE,
                   position |-> chunk_index * CHUNK_SIZE + current_newline_position + 1]
             ELSE SeekTailWhile(f, n, chunk_index, chunk, current_newline_position,
                                RFind(f, chunk, current_newline_position), count)

\* the for loop of _seek_tail over the chunks, from the last one down, and its
\* else branch, seek(0): the position the file is left at
RECURSIVE SeekTailFor(_, _, _, _, _, _, _)
SeekTailFor(f, n, iteration, chunk_index, chunk, previous_newline_position, newline_count) ==
    IF chunk_index < 0 THEN 0
    ELSE LET line_tail == Prefix(chunk, previous_newline_position)
             new_chunk == Concat(Read(f, CHUNK_SIZE * chunk_index, CHUNK_SIZE), line_tail)
             previous  == IF iteration = 0 THEN RFind(f, new_chunk, None) ELSE None
             w == SeekTailWhile(f, n, chunk_index, new_chunk, previous,
                                RFind(f, new_chunk, previous), newline_count)
         IN  IF w.returned THEN w.position
             ELSE SeekTailFor(f, n, iteration + 1, chunk_index - 1, new_chunk,
                              w.previous_newline_position, w.newline_count)

\* _seek_tail() with self.tail_length = n > 0: logfile.tell() afterwards
SeekTail(f, n) ==
    SeekTailFor(f, n, 0, ChunkCount(FileSize(f)) - 1, Bytes(0, 0), None, 0)

\* ---- LogReader._seek_time

\* 'greater than any time string': as a Python string it is greater than every
\* timestamp text, which starts with "20"
GreaterThanAnyTimeString == 1000

\* logfile.seek(pos); logfile.readline(): the bytes up to and with the next
\* '\n', or up to the end of the file
ReadLineAt(f, pos) ==
    LET ahead == {q \in Newlines(f) : q >= pos}
    IN  IF pos >= FileSize(f) THEN Bytes(FileSize(f), FileSize(f))
        ELSE IF ahead = {} THEN Bytes(pos, FileSize(f))
        ELSE Bytes(pos, (CHOOSE q \in ahead : \A r \in ahead : q <= r) + 1)
\* line[-1] == '\n'
EndsWithNewline(f, line) == StrLen(line) > 0 /\ (line.hi - 1) \in Newlines(f)
\* parser.get_time_string(line) of a header line: the text of its timestamp
get_time_string(f, line) ==
    LET k == CHOOSE k \in 1 .. Len(f) : LineStart(f, k) = line.lo IN f[k].ts

\* get_first_timestamp_in_chunk, from the readline at position pos on
RECURSIVE GetFirstTimestampFrom(_, _)
GetFirstTimestampFrom(f, pos) ==
    LET line == ReadLineAt(f, pos)
    IN  IF StrLen(line) > 0 /\ is_continuation_line(f, line)
        THEN GetFirstTimestampFrom(f, line.hi)
        ELSE IF StrLen(line) > 0 /\ EndsWithNewline(f, line)
             THEN get_time_string(f, line)
             ELSE GreaterThanAnyTimeString
GetFirstTimestampInChunk(f, chunk_index) ==
    GetFirstTimestampFrom(f, CHUNK_SIZE * chunk_index)

\* binary_chunk_search(start_index, stop_index)
RECURSIVE BinaryChunkSearch(_, _, _, _)
BinaryChunkSearch(f, time_string, start_index, stop_index) ==
    IF start_index + 1 = stop_index THEN start_index
    ELSE LET pivot_index == (start_index + stop_index) \div 2
         IN  IF GetFirstTimestampInChunk(f, pivot_index) > time_string
             THEN BinaryChunkSearch(f, time_string, start_index, pivot_index)
             ELSE BinaryChunkSearch(f, time_string, pivot_index, stop_index)

\* seek_time_in_chunk, from the readline at position pos on: logfile.tell()
\* when it returns
RECURSIVE SeekTimeFrom(_, _, _)
SeekTimeFrom(f, time_string, pos) ==
    LET line == ReadLineAt(f, pos)
    IN  IF StrLen(line) > 0 /\ EndsWithNewline(f, line)
        THEN IF is_continuation_line(f, line) THEN SeekTimeFrom(f, time_string, line.hi)
             ELSE IF get_time_string(f, line) >= time_string
                  THEN line.hi - StrLen(line)
                  ELSE SeekTimeFrom(f, time_string, line.hi)
        ELSE FileSize(f)
SeekTimeInChunk(f, time_string, chunk_index) ==
    SeekTimeFrom(f, time_string, chunk_index * CHUNK_SIZE)

\* _seek_time(time_string): logfile.tell() afterwards
SeekTime(f, time_string) ==
    SeekTimeInChunk(f, time_string,
                    BinaryChunkSearch(f, time_string, 0, ChunkCount(FileSize(f)) + 1))

\* ---- the progress file: _make_progress_string, _save_progress, _load_progress
\* A string is the sequence of its characters.

Digits == <<"0", "1", "2", "3", "4", "5", "6", "7", "8", "9">>
IsDigit(c) == \E d \in 1 .. 10 : Digits[d] = c
DigitValue(c) == (CHOOSE d \in 1 .. 10 : Digits[d] = c) - 1
\* str.isspace() of a character
IsSpace(c) == c \in {" ", "\t", "\n"}

\* '%d' % n for n >= 0
RECURSIVE Decimal(_)
Decimal(n) == IF n < 10 THEN <<Digits[n + 1]>> ELSE Decimal(n \div 10) \o <<Digits[(n % 10) + 1]>>

\* int(s) of a string without sign and blanks: [ok, value], ok FALSE for the
\* ValueError
RECURSIVE IntValue(_, _)
IntValue(s, acc) == IF s = <<>> THEN acc ELSE IntValue(Tail(s), 10 * acc + DigitValue(Head(s)))
Int_(s) ==
    IF s # <<>> /\ \A k \in 1 .. Len(s) : IsDigit(s[k])
    THEN [ok |-> TRUE, value |-> IntValue(s, 0)]
    ELSE [ok |-> FALSE]

\* '%s %s %d %d' % (self.logfile_name, self.logfile_id, position, size)
MakeProgressString(logfile_name, logfile_id_, position, size) ==
    logfile_name \o <<" ">> \o logfile_id_ \o <<" ">> \o Decimal(position)
        \o <<" ">> \o Decimal(size)

\* the index of the last character of s[1 .. i] that is not white space, 0 if none
RECURSIVE SkipSpaceLeft(_, _)
SkipSpaceLeft(s, i) == IF i > 0 /\ IsSpace(s[i]) THEN SkipSpaceLeft(s, i - 1) ELSE i
\* the index before the word that ends at i
RECURSIVE SkipWordLeft(_, _)
SkipWordLeft(s, i) == IF i > 0 /\ ~IsSpace(s[i]) THEN SkipWordLeft(s, i - 1) ELSE i

\* s[1 .. i].rsplit(None, maxsplit): words are cut off from the right at runs
\* of white space; what is left after maxsplit cuts loses its trailing white
\* space only
RECURSIVE RSplit(_, _, _)
RSplit(s, i, maxsplit) ==
    LET j == SkipSpaceLeft(s, i)
    IN  IF j = 0 THEN <<>>
        ELSE IF maxsplit = 0 THEN <<SubSeq(s, 1, j)>>
             ELSE RSplit(s, SkipWordLeft(s, j), maxsplit - 1)
                      \o <<SubSeq(s, SkipWordLeft(s, j) + 1, j)>>

\* _save_progress, when the write succeeds: the contents of the progress file
SaveProgress(progress) == progress

\* _load_progress on a progress file with these contents: [ok, value], ok
\* FALSE for the ValueError of the unpacking or of int()
LoadProgress(contents) ==
    LET parts == RSplit(contents, Len(contents), 3)
    IN  IF Len(parts) # 4 THEN [ok |-> FALSE]
        ELSE IF ~Int_(parts[3]).ok \/ ~Int_(parts[4]).ok THEN [ok |-> FALSE]
        ELSE [ok |-> TRUE,
              value |-> <<parts[1], parts[2], Int_(parts[3]).value, Int_(parts[4]).value>>]

\* ---- the files and the calls FnSpec draws from

\* the lengths of the lines: a header line has 24 bytes and its '\n' at least;
\* "\n" alone is an empty line; the long ones cross a chunk boundary
HeaderLengths == {25, 1000, 1030}
ContinuationLengths == {1, 30, 1000}
ByteLines ==
    {[kind |-> "H", len |-> l, ts |-> t] : l \in HeaderLengths, t \in 1 .. MaxTs}
        \cup {[kind |-> "C", len |-> l, ts |-> 0] : l \in ContinuationLengths}
\* the timestamps of a log file's header lines do not decrease
TsNonDecreasing(f) ==
    \A j, k \in 1 .. Len(f) :
        (j < k /\ f[j].kind = "H" /\ f[k].kind = "H") => f[j].ts <= f[k].ts
ByteFiles ==
    {f \in UNION {[1 .. m -> ByteLines] : m \in 0 .. MaxFileLines} : TsNonDecreasing(f)}

SeekTailCalls ==
    {[fn |-> "_seek_tail", file |-> f, tail_length |-> n] :
        f \in ByteFiles, n \in 1 .. MaxTail}

SeekTimeCalls ==
    {[fn |-> "_seek_time", file |-> f, time_string |-> t] :
        f \in ByteFiles, t \in 0 .. (MaxTs + 1)}

\* paths of letters and spaces that start with a letter, identities of
\* letters and digits, offsets of one, two and three digits
Paths == {p \in UNION {[1 .. m -> {"a", " "}] : m \in 1 .. MaxPathLen} : p[1] = "a"}
Identities == {<<"1", "g", "a">>, <<"7">>}
Offsets == {0, 9, 10, 123}
SaveLoadCalls ==
    {[fn |-> "_save_progress;_load_progress", path |-> p, identity |-> i,
      position |-> o, size |-> z] :
        p \in Paths, i \in Identities, o \in Offsets, z \in Offsets}

\* ---- the parser (src/logfire.py), on files given character by character

\* Log4jParser.__init__: the default pattern %d %x %p %t %l: %m%n
column_count == 5
message_column_index == 4
delimiter == " "

\* the offset after the line that starts at offset pos of the text `data`
RECURSIVE LineEnd(_, _)
LineEnd(data, pos) ==
    IF pos >= Len(data) THEN Len(data)
    ELSE IF data[pos + 1] = "\n" THEN pos + 1
    ELSE LineEnd(data, pos + 1)
\* logfile.readline() at offset pos: the line with its newline, <<>> at the end
ReadLineText(data, pos) == SubSeq(data, pos + 1, LineEnd(data, pos))

\* s[start:] of a text
TextFrom(s, start) == IF start >= Len(s) THEN <<>> ELSE SubSeq(s, start + 1, Len(s))
\* s[:stop] of a text
TextUpTo(s, stop) == IF stop >= Len(s) THEN s ELSE SubSeq(s, 1, stop)
\* s.startswith('20')
StartsWith20(s) == Len(s) >= 2 /\ s[1] = "2" /\ s[2] = "0"

\* Log4jParser._is_continuation_line
Log4jIsContinuationLine(line) ==
    Len(line) > 0 /\ ~(StartsWith20(line) /\ TextUpTo(TextFrom(line, 23), 1) = <<" ">>)

\* s.split(delimiter, maxsplit)
RECURSIVE Split(_, _)
Split(s, maxsplit) ==
    IF maxsplit = 0 \/ ~(\E k \in 1 .. Len(s) : s[k] = delimiter) THEN <<s>>
    ELSE LET k == CHOOSE k \in 1 .. Len(s) :
                      s[k] = delimiter /\ \A j \in 1 .. k - 1 : s[j] # delimiter
         IN  <<SubSeq(s, 1, k - 1)>> \o Split(TextFrom(s, k), maxsplit - 1)

\* ''.join(lines)
RECURSIVE Join(_)
Join(lines) == IF lines = <<>> THEN <<>> ELSE Head(lines) \o Join(Tail(lines))

\* s.rstrip()
RECURSIVE RStrip(_)
RStrip(s) ==
    IF s # <<>> /\ IsSpace(s[Len(s)]) THEN RStrip(SubSeq(s, 1, Len(s) - 1)) ELSE s

\* a position left where the line read ended
SeekBackNot(pos, l) == pos
\* logfile.seek(-len(l), os.SEEK_CUR), from position pos
SeekBack(pos, l) == pos - Len(l)

\* Log4jParser._read_message: [message, pos], the message and the file
\* position afterwards; pos is the file position, lines the list so far
RECURSIVE ReadMessage(_, _, _)
ReadMessage(data, pos, lines) ==
    LET l == ReadLineText(data, pos)
    IN  IF Log4jIsContinuationLine(l)
        THEN ReadMessage(data, pos + Len(l), Append(lines, l))
        ELSE [message |-> RStrip(Join(lines)), pos |-> SeekBack(pos + Len(l), l)]

\* Log4jParser.read from file position pos with counter i: the entries it
\* yields, as [ts, i, message, at]; `at` is not a field of LogEntry, it
\* records the offset of the line the entry was started on
RECURSIVE ParserRead(_, _, _)
ParserRead(data, pos, i) ==
    LET line    == ReadLineText(data, pos)
        ts      == TextUpTo(line, 23)
        columns == Split(TextFrom(line, 24), column_count - 1)
    IN  IF line = <<>> THEN <<>>
        ELSE IF ~StartsWith20(ts) THEN ParserRead(data, pos + Len(line), i)
        ELSE IF Len(columns) < column_count THEN ParserRead(data, pos + Len(line), i)
        ELSE LET m == ReadMessage(data, pos + Len(line), <<columns[message_column_index + 1]>>)
             IN  <<[ts |-> ts, i |-> i, message |-> m.message, at |-> pos]>>
                     \o ParserRead(data, m.pos, i + 1)

\* a skipped line that is not logged
WarnSkippedNot(what, line) == <<>>
\* logging.warn('Skipped a line because it ...: "%s".', line)
WarnSkipped(what, line) == <<[level |-> "WARN", what |-> what, line |-> line]>>

\* Log4jParser.read from file position pos: the records it logs
RECURSIVE ParserLog(_, _)
ParserLog(data, pos) ==
    LET line    == ReadLineText(data, pos)
        ts      == TextUpTo(line, 23)
        columns == Split(TextFrom(line, 24), column_count - 1)
    IN  IF line = <<>> THEN <<>>
        ELSE IF ~StartsWith20(ts)
        THEN WarnSkipped("no date", line) \o ParserLog(data, pos + Len(line))
        ELSE IF Len(columns) < column_count
        THEN WarnSkipped("too few columns", line) \o ParserLog(data, pos + Len(line))
        ELSE ParserLog(data, ReadMessage(data, pos + Len(line),
                                         <<columns[message_column_index + 1]>>).pos)

\* the lines the files of the parser calls are made of: a date column of 23
\* characters, the four columns before the message
Stamp == <<"2", "0">> \o [k \in 1 .. 21 |-> "x"]
Fields == <<"F", " ", "E", " ", "T", " ", "L", " ">>
ParserLines ==
    { Stamp \o <<" ">> \o Fields \o <<"m", "\n">>,        \* a record
      Stamp \o <<" ">> \o Fields \o <<"m", " ", "\n">>,   \* a record, a blank ends its message
      Stamp \o <<" ">> \o <<"m", "\n">>,                  \* a header line with too few columns
      Stamp \o <<"x">> \o Fields \o <<"m", "\n">>,        \* starts with 20, byte 23 is no space
      <<"a", "\n">>,                                      \* a line of a stack trace
      <<" ", "\n">>,                                      \* a line of blanks
      <<"\n">> }                                          \* an empty line
\* chop: the file ends without a newline
ParserCalls ==
    {c \in [fn : {"read"}, chop : BOOLEAN,
            lines : UNION {[1 .. m -> ParserLines] : m \in 1 .. MaxParseLines}] :
        c.chop => Len(c.lines[Len(c.lines)]) > 1}
\* the text of the file of a parser call
ParserData(c) ==
    IF c.chop THEN SubSeq(Join(c.lines), 1, Len(Join(c.lines)) - 1) ELSE Join(c.lines)

\* s.rstrip(chars)
RECURSIVE RStripChars(_, _)
RStripChars(s, chars) ==
    IF s # <<>> /\ s[Len(s)] \in chars THEN RStripChars(SubSeq(s, 1, Len(s) - 1), chars) ELSE s
\* s.rpartition(ch): <<head, sep, tail>> at the last ch, <<'', '', s>> without one
RPartition(s, ch) ==
    IF \E k \in 1 .. Len(s) : s[k] = ch
    THEN LET k == CHOOSE k \in 1 .. Len(s) : s[k] = ch /\ \A j \in k + 1 .. Len(s) : s[j] # ch
         IN  <<SubSeq(s, 1, k - 1), <<ch>>, TextFrom(s, k)>>
    ELSE <<<<>>, <<>>, s>>
\* s.partition(ch): <<head, sep, tail>> at the first ch, <<s, '', ''>> without one
Partition(s, ch) ==
    IF \E k \in 1 .. Len(s) : s[k] = ch
    THEN LET k == CHOOSE k \in 1 .. Len(s) : s[k] = ch /\ \A j \in 1 .. k - 1 : s[j] # ch
         IN  <<SubSeq(s, 1, k - 1), <<ch>>, TextFrom(s, k)>>
    ELSE <<s, <<>>, <<>>>>
\* try_parsing_int(string, default)
try_parsing_int(string, default) == IF Int_(string).ok THEN Int_(string).value ELSE default
\* Log4jParser._split_code_position
SplitCodePosition(string) ==
    LET outer == RPartition(RStripChars(string, {":", ")"}), "(")
        cm    == RPartition(outer[1], ".")
        fl    == Partition(outer[3], ":")
    IN  [class_ |-> cm[1], method |-> cm[3], file_ |-> fl[1],
         line_number |-> try_parsing_int(fl[3], -1)]
\* Log4jParser._is_valid_code_position
IsValidCodePosition(string) ==
    LET p == SplitCodePosition(string)
    IN  p.class_ # <<>> /\ p.method # <<>> /\ p.file_ # <<>> /\ p.line_number # -1

\* a search that takes the last valid column of parts[1:4]
LocationColumnIndexLast(parts) ==
    IF \E k \in 1 .. 3 : k + 1 <= Len(parts) /\ IsValidCodePosition(parts[k + 1])
    THEN CHOOSE k \in 1 .. 3 :
             /\ k + 1 <= Len(parts) /\ IsValidCodePosition(parts[k + 1])
             /\ \A j \in k + 1 .. 3 : ~(j + 1 <= Len(parts) /\ IsValidCodePosition(parts[j + 1]))
    ELSE 0
\* Log4jParser.autoconfigure, the for loop over enumerate(parts[1:4], start=1):
\* the column_index it breaks at, 0 when it runs into its else
LocationColumnIndex(parts) ==
    IF \E k \in 1 .. 3 : k + 1 <= Len(parts) /\ IsValidCodePosition(parts[k + 1])
    THEN CHOOSE k \in 1 .. 3 :
             /\ k + 1 <= Len(parts) /\ IsValidCodePosition(parts[k + 1])
             /\ \A j \in 1 .. k - 1 : ~IsValidCodePosition(parts[j + 1])
    ELSE 0
\* Log4jParser.autoconfigure(logfile) on a file whose first line is
\* sample_line: the parser's fields afterwards, or raised
ParserAutoconfigure(sample_line) ==
    LET parts == Split(TextFrom(sample_line, 24), Len(sample_line))
        location_column_index == LocationColumnIndex(parts)
        message_index == location_column_index + 1
        count == message_index + 1
    IN  IF location_column_index = 0
        THEN [raised |-> TRUE, delimiter |-> " ", flow_id_column_index |-> 0,
              level_column_index |-> 1, thread_column_index |-> 2,
              location_column_index |-> 3, message_column_index |-> 4, column_count |-> 5]
        ELSE [raised |-> FALSE, delimiter |-> " ",
              flow_id_column_index |-> IF count = 5 THEN 0 ELSE None,
              level_column_index |-> IF count = 5 THEN 1 ELSE 0,
              thread_column_index |-> IF count = 5 THEN 2 ELSE IF count = 4 THEN 1 ELSE None,
              location_column_index |-> location_column_index,
              message_column_index |-> message_index,
              column_count |-> count]

\* the columns the sample lines are made of: a level, a code location, one
\* whose line number is no number, one without a class, a word
SampleColumns ==
    { <<"E">>,
      <<"C", ".", "m", "(", "F", ":", "1", ")", ":">>,
      <<"C", ".", "m", "(", "F", ":", "x", ")">>,
      <<"m", "(", "F", ":", "1", ")">>,
      <<"m">> }
\* newline: the line ends with one (the file has more lines, or ends with it)
AutoconfigureCalls ==
    [fn : {"autoconfigure"}, newline : BOOLEAN,
     columns : UNION {[1 .. m -> SampleColumns] : m \in 0 .. MaxColumns}]
\* ' '.join(columns)
RECURSIVE JoinColumns(_)
JoinColumns(columns) ==
    IF columns = <<>> THEN <<>>
    ELSE IF Len(columns) = 1 THEN columns[1]
    ELSE columns[1] \o <<" ">> \o JoinColumns(Tail(columns))
\* the first line of the file of an autoconfigure call; a file without
\* columns is empty
SampleLine(c) ==
    IF c.columns = <<>> THEN <<>>
    ELSE Stamp \o <<" ">> \o JoinColumns(c.columns) \o (IF c.newline THEN <<"\n">> ELSE <<>>)

\* ---- the filter (src/common.py, src/logreader.py)

\* the fields of logfire.LogEntry, a namedtuple
LogEntryFields ==
    {"ts", "fid", "i", "flowid", "level", "thread", "clazz", "method", "file", "line", "message"}
\* `needle in text` of two strings
IsSubstring(needle, text) ==
    \E k \in 0 .. Len(text) - Len(needle) : SubSeq(text, k + 1, k + Len(needle)) = needle
\* LogFilter.matches(entry) for the filter f = [levels, grep, time_from,
\* time_to], None for an absent time and '' for an absent grep (both are
\* false in `if ok and ...`), and a logfire.LogEntry with the values e of its
\* fields: [raised, value]; reading an attribute that LogEntry has not
\* raises AttributeError.  Timestamps are numbers, ordered as the texts are.
FilterMatches(f, e) ==
    LET ok1 == f.levels = {} \/ e.level \in f.levels
        grep_reads == IF IsSubstring(f.grep, e.message) THEN {"message"} ELSE {"message", "class_"}
        ok2 == IsSubstring(f.grep, e.message) \/ IsSubstring(f.grep, e.clazz)
        ok3 == e.ts >= f.time_from
        ok4 == e.ts < f.time_to
        grep_set == f.grep # <<>>
        from_set == f.time_from # None
        to_set   == f.time_to # None
    IN  IF ~ok1 THEN [raised |-> FALSE, value |-> FALSE]
        ELSE IF grep_set /\ ~(grep_reads \subseteq LogEntryFields)
        THEN [raised |-> TRUE, value |-> FALSE]
        ELSE IF grep_set /\ ~ok2 THEN [raised |-> FALSE, value |-> FALSE]
        ELSE IF from_set /\ "timestamp" \notin LogEntryFields
        THEN [raised |-> TRUE, value |-> FALSE]
        ELSE IF from_set /\ ~ok3 THEN [raised |-> FALSE, value |-> FALSE]
        ELSE IF to_set /\ "timestamp" \notin LogEntryFields
        THEN [raised |-> TRUE, value |-> FALSE]
        ELSE IF to_set /\ ~ok4 THEN [raised |-> FALSE, value |-> FALSE]
        ELSE [raised |-> FALSE, value |-> TRUE]

FilterCalls ==
    [fn : {"matches"},
     filter : [levels : {{}, {"ERROR"}}, grep : {<<>>, <<"b">>},
               time_from : {None, 1}, time_to : {None, 1, MaxTs}],
     entry : [level : Levels, message : {<<"a">>, <<"a", "b">>}, clazz : {<<"b">>, <<"c">>},
              ts : 0 .. MaxTs]]

FnCalls ==
    SeekTailCalls \cup SeekTimeCalls \cup SaveLoadCalls \cup ParserCalls \cup AutoconfigureCalls
        \cup FilterCalls

FnInit ==
    /\ variant = "ordered"
    /\ follow = FALSE
    /\ entries = <<>>
    /\ open_files = {}
    /\ cpc = "idle"
    /\ added = <<>>
    /\ yielded = <<>>
    /\ quiescent = FALSE
    /\ eofd = {}
    /\ path_ino = 0
    /\ fcontent = [f \in Inodes |-> <<>>]
    /\ envSteps = 0
    /\ rpc = "off"
    /\ handles = <<>>
    /\ logfile_self = 0
    /\ logfile_local = 0
    /\ logfile_id = 0
    /\ last_ensure = 0
    /\ now = StartTime
    /\ entry_count = 0
    /\ parser_i = 0
    /\ stat_results = [ino |-> 0, size |-> 0]
    /\ hk_ret = "loop"
    /\ tail_length = NoTail
    /\ levels = {}
    /\ sent = <<>>
    /\ started = FALSE
    /\ modified = FALSE
    /\ progress_file_path = FALSE
    /\ progress_file = <<>>
    /\ last_save = 0
    /\ logged = <<>>
    /\ truncated = "no"
    /\ remaining = 0
    /\ hk_calls = 0
    /\ progress_exists = FALSE
    /\ progress_log = <<>>
    /\ restarts = 0
    /\ call \in FnCalls
    /\ ret = <<>>

fnFrame == <<aggVars, path_ino, fcontent, envSteps, rpc, handles, logfile_self,
             logfile_local, logfile_id, last_ensure, now, entry_count, parser_i,
             stat_results, hk_ret, tail_length, levels, sent, started, modified,
             progress_file_path, progress_file, last_save, logged, truncated,
             remaining, hk_calls, progress_exists, progress_log, restarts, call>>

\* reader._seek_tail() returns
CallSeekTail ==
    /\ call.fn = "_seek_tail"
    /\ ret = <<>>
    /\ ret' = <<SeekTail(call.file, call.tail_length)>>
    /\ UNCHANGED fnFrame

\* reader._seek_time(time_string) returns
CallSeekTime ==
    /\ call.fn = "_seek_time"
    /\ ret = <<>>
    /\ ret' = <<SeekTime(call.file, call.time_string)>>
    /\ UNCHANGED fnFrame

\* _save_progress() writes the record of _make_progress_string(), and
\* _load_progress() returns
CallSaveLoad ==
    /\ call.fn = "_save_progress;_load_progress"
    /\ ret = <<>>
    /\ ret' = <<LoadProgress(SaveProgress(
                   MakeProgressString(call.path, call.identity, call.position, call.size)))>>
    /\ UNCHANGED fnFrame

\* list(parser.read(0, logfile)) on a file just opened: <<the entries, the log>>
CallParserRead ==
    /\ call.fn = "read"
    /\ ret = <<>>
    /\ ret' = <<ParserRead(ParserData(call), 0, 0), ParserLog(ParserData(call), 0)>>
    /\ UNCHANGED fnFrame

\* parser.autoconfigure(logfile) returns or raises
CallAutoconfigure ==
    /\ call.fn = "autoconfigure"
    /\ ret = <<>>
    /\ ret' = <<ParserAutoconfigure(SampleLine(call))>>
    /\ UNCHANGED fnFrame

\* entry_filter.matches(entry) returns or raises
CallMatches ==
    /\ call.fn = "matches"
    /\ ret = <<>>
    /\ ret' = <<FilterMatches(call.filter, call.entry)>>
    /\ UNCHANGED fnFrame

FnNext ==
    \/ CallMatches
    \/ CallAutoconfigure
    \/ CallSaveLoad
    \/ CallSeekTail
    \/ CallSeekTime
    \/ CallParserRead

FnSpec == FnInit /\ [][FnNext]_vars


\* ================================================================ claims
\* The order of the specification on entries: (timestamp_text, reader_id,
\* entry_index), stated apart from the comparison the code uses.
KeyLess(a, b) == <<a.ts, a.fid, a.i>> # <<b.ts, b.fid, b.i>> /\
    (a.ts < b.ts \/ (a.ts = b.ts /\ (a.fid < b.fid \/ (a.fid = b.fid /\ a.i < b.i))))
KeyLeq(a, b) == ~KeyLess(b, a)

\* the entries get() has yielded, in order
Yielded == [k \in 1 .. Len(yielded) |-> yielded[k].e]
SeqRange(q) == {q[k] : k \in 1 .. Len(q)}
\* the position of entry e in the sequence of adds
AddIndex(e) == CHOOSE n \in 1 .. Len(added) : added[n] = e
\* this step is a yield of get()
YieldStep == Len(yielded') = Len(yielded) + 1
JustYielded == yielded'[Len(yielded')].e

\* C1 (as claimed): whatever the interleaving of add with a running drain, the
\* entries the ordered aggregator yields are non-decreasing in (ts, fid, i).
C1_DrainNonDecreasing ==
    variant = "ordered" =>
        \A j, k \in 1 .. Len(yielded) : j < k => KeyLeq(Yielded[j], Yielded[k])

\* C1 (amended): of two entries yielded by the ordered aggregator, the later
\* one has a smaller key only if it was added after the earlier one was yielded.
C1_NonDecreasingAmongQueued ==
    variant = "ordered" =>
        \A j, k \in 1 .. Len(yielded) :
            j < k => \/ KeyLeq(Yielded[j], Yielded[k])
                     \/ AddIndex(Yielded[k]) > yielded[j].stamp

\* two readers' entries were queued together and came out in key order, not in
\* the order of their adds
C1_Witness ==
    /\ variant = "ordered"
    /\ \E j, k \in 1 .. Len(yielded) :
         /\ j < k
         /\ Yielded[j].fid # Yielded[k].fid
         /\ AddIndex(Yielded[k]) < AddIndex(Yielded[j])
         /\ AddIndex(Yielded[j]) <= yielded[j].stamp
         /\ KeyLess(Yielded[j], Yielded[k])

\* C2 (as claimed): the ordered drain yields E only when every reader still in
\* the open set has added an entry with key >= E.key.
C2_YieldWaitsForOpenReaders ==
    [][(variant = "ordered" /\ YieldStep) =>
          \A r \in open_files :
              \E n \in 1 .. Len(added) : added[n].fid = r /\ KeyLeq(JustYielded, added[n])]_vars

\* C2 (amended): the ordered drain yields E only when every entry that a
\* reader still in the open set has queued has key >= E.key; such a reader
\* need not have added any entry with key >= E.key.
C2_YieldBelowQueuedOfOpenReaders ==
    [][(variant = "ordered" /\ YieldStep) =>
          \A r \in open_files :
              \A n \in 1 .. Len(entries) :
                  entries[n].fid = r => KeyLeq(JustYielded, entries[n])]_vars

\* an entry was yielded while a reader still open had a larger entry queued
C2_Witness ==
    /\ variant = "ordered"
    /\ Len(yielded) >= 1
    /\ yielded[Len(yielded)].stamp = Len(added)
    /\ \E n \in 1 .. Len(entries) :
         /\ entries[n].fid \in open_files
         /\ entries[n].fid # yielded[Len(yielded)].e.fid
         /\ KeyLess(yielded[Len(yielded)].e, entries[n])

\* C3: for both aggregators, under every interleaving of add, eof and the
\* drain, the entries added are exactly the entries yielded plus the entries
\* queued, nothing is yielded twice, and a finished ordered drain has yielded
\* every entry added.
C3_ExactlyOnce ==
    /\ Len(yielded) + Len(entries) = Len(added)
    /\ SeqRange(Yielded) \cup SeqRange(entries) = SeqRange(added)
    /\ Cardinality(SeqRange(Yielded)) = Len(yielded)
    /\ SeqRange(Yielded) \cap SeqRange(entries) = {}
    /\ (variant = "ordered" /\ cpc = "done") => SeqRange(Yielded) = SeqRange(added)

\* the ordered drain has finished after entries of two readers went through it
C3_Witness ==
    /\ variant = "ordered"
    /\ cpc = "done"
    /\ ~quiescent
    /\ Len(yielded) >= 3
    /\ \E j, k \in 1 .. Len(yielded) : Yielded[j].fid # Yielded[k].fid

\* C4: the FIFO drain yields the added values in the order of their adds, len
\* is the number added and not yet yielded at every point, and the drain
\* returns on the empty queue whether or not a reader is still open.
C4_FifoOrder ==
    /\ [](variant = "fifo" =>
            /\ Yielded \o entries = added
            /\ AggLen = Len(added) - Len(yielded))
    /\ [][(variant = "fifo" /\ cpc = "pop" /\ entries = <<>> /\ cpc' # cpc) =>
             (cpc' = "done" /\ yielded' = yielded)]_vars

\* three values added out of key order were drained in the order of the adds,
\* and the drain returned with a reader still open
C4_Witness ==
    /\ variant = "fifo"
    /\ cpc = "done"
    /\ open_files # {}
    /\ Len(yielded) = 3
    /\ AggLen = 0
    /\ KeyLess(Yielded[2], Yielded[1])

\* C5: the ordered drain is finished only with the heap empty and no reader
\* open, yields nothing while the heap is empty, and finishes once the heap is
\* empty and every reader has signalled eof.
C5_DrainEnds ==
    /\ []((variant = "ordered" /\ cpc = "done") => (entries = <<>> /\ open_files = {}))
    /\ [][(variant = "ordered" /\ entries = <<>>) => yielded' = yielded]_vars
    /\ (variant = "ordered" /\ entries = <<>> /\ open_files = {}) ~> (cpc = "done")

\* a drain started while readers were open has yielded entries and finished
C5_Witness ==
    /\ variant = "ordered"
    /\ cpc = "done"
    /\ ~quiescent
    /\ Len(yielded) >= 2

\* C6: the open set starts as {0, ..., n-1}; eof(r) removes r and nothing
\* else and leaves the queue alone; no step that is not an eof changes it.
C6_OpenSet ==
    /\ open_files = 0 .. (NumReaders - 1)
    /\ [][\A r \in Readers :
             (r \in eofd' /\ r \notin eofd) =>
                 /\ open_files' = open_files \ {r}
                 /\ r \in open_files
                 /\ entries' = entries]_vars
    /\ [][(eofd' = eofd) => open_files' = open_files]_vars

\* reader 0 has signalled eof, reader 1 is open, entries are queued
C6_Witness ==
    /\ eofd = {0}
    /\ open_files = Readers \ {0}
    /\ open_files # {}
    /\ entries # <<>>

\* C7: started with every add done and no reader open, the ordered drain
\* yields all the entries added in strictly ascending (ts, fid, i) order and
\* leaves length 0.
C7_SortedDrain ==
    (variant = "ordered" /\ quiescent /\ cpc = "done") =>
        /\ Len(yielded) = Len(added)
        /\ SeqRange(Yielded) = SeqRange(added)
        /\ \A j, k \in 1 .. Len(yielded) : j < k => KeyLess(Yielded[j], Yielded[k])
        /\ AggLen = 0

\* entries with equal timestamps, of two readers and of one reader, added out
\* of order, were drained after all adds
C7_Witness ==
    /\ variant = "ordered"
    /\ quiescent
    /\ cpc = "done"
    /\ Len(yielded) = 3
    /\ Yielded[1].ts = Yielded[2].ts /\ Yielded[2].ts = Yielded[3].ts
    /\ Cardinality({Yielded[k].fid : k \in 1 .. 3}) = 2
    /\ added[1] # Yielded[1]

\* ---- the reader's deliveries
\* the calls the reader has made on the aggregator, by kind
SentAdds == SelectSeq(sent, LAMBDA c : c.op = "add")
SentEofs == SelectSeq(sent, LAMBDA c : c.op = "eof")
\* The entries of a file's lines from line k on, stated line by line: every
\* header line is an entry, numbered n, n + 1, ... in file order; those whose
\* level the filter accepts are to be delivered.
RECURSIVE MatchingEntriesFrom(_, _, _, _)
MatchingEntriesFrom(content, k, n, lvls) ==
    IF k > Len(content) THEN <<>>
    ELSE IF content[k].kind # "H" THEN MatchingEntriesFrom(content, k + 1, n, lvls)
    ELSE (IF lvls = {} \/ content[k].level \in lvls
          THEN <<[op |-> "add", fid |-> reader_id,
                  e |-> [ts |-> content[k].ts, fid |-> reader_id, i |-> n,
                         level |-> content[k].level]]>>
          ELSE <<>>) \o MatchingEntriesFrom(content, k + 1, n + 1, lvls)
\* the file the reader opened at its start, and the line its start position
\* stands before: the stored position of a configured progress file that
\* could be loaded, else the file's start; without a progress file, the
\* file's end for tail_length 0 and its start otherwise
ReaderFile == fcontent[handles[1].ino]
StartLine ==
    IF progress_file_path
    THEN (IF progress_file # <<>> THEN progress_file[1].pos + 1 ELSE 1)
    ELSE IF tail_length = 0 THEN Len(ReaderFile) + 1 ELSE 1

C9_EntryIndexIncreasing ==
    \A j, k \in 1 .. Len(SentAdds) : j < k => SentAdds[j].e.i < SentAdds[k].e.i

\* C10 (as claimed): once started, the reader's loop ends only by reaching
\* EOF in non-follow mode; in follow mode it never exits and never calls eof,
\* and no error met during housekeeping terminates it.
C10_LoopEndsOnlyAtEof ==
    started =>
        /\ rpc # "crashed"
        /\ follow => (rpc # "done" /\ SentEofs = <<>>)

\* C11 (as claimed): after housekeeping has reopened the file on a rotation,
\* every later read of the reader loop uses the newly opened handle, never the
\* closed one.
C11_ReadsUseReopenedHandle ==
    (started /\ rpc = "read") =>
        (logfile_local = logfile_self /\ ~handles[logfile_local].closed)

\* ---- housekeeping
\* this step is the part of _ensure_file_is_good after os.stat succeeded
EnsureStep == rpc = "hk_check" /\ rpc' # rpc
\* this step is a call of _maybe_do_housekeeping, up to os.stat
HousekeepingStep == rpc = "hk" /\ rpc' # rpc
\* this step is the checkpoint gate of _maybe_do_housekeeping
SaveStep == rpc = "hk_save" /\ rpc' # rpc

\* C12: when the health check finds an identity at the path that differs from
\* the stored one, it closes the current handle and, the path still naming a
\* file, opens a new handle on the path, stores the identity of the new handle
\* and leaves the new handle at position 0.
C12_RotationReopens ==
    [][(EnsureStep /\ stat_results.ino # logfile_id) =>
          /\ handles'[logfile_self].closed
          /\ path_ino # 0 =>
                /\ logfile_self' \notin 1 .. Len(handles)
                /\ logfile_self' \in 1 .. Len(handles')
                /\ ~handles'[logfile_self'].closed
                /\ handles'[logfile_self'].ino = path_ino
                /\ logfile_id' = handles'[logfile_self'].ino
                /\ handles'[logfile_self'].pos = 0
                /\ logged' = <<"[INFO] rotated", "[INFO] Closed", "[INFO] Opened">>
                /\ rpc' # "crashed"]_vars

\* the reader had read its file to the end when a rotation was found: the
\* first handle is closed, a second one is open at 0 on the file at the path
C12_Witness ==
    /\ Len(handles) = 2
    /\ handles[1].closed /\ handles[1].pos >= 1
    /\ logfile_self = 2
    /\ ~handles[2].closed /\ handles[2].pos = 0
    /\ handles[2].ino = path_ino
    /\ logfile_id = path_ino
    /\ logged = <<"[INFO] rotated", "[INFO] Closed", "[INFO] Opened">>

\* C13 (as claimed): after the file was truncated in place, the next health
\* check sets the position to 0 on the same handle, which stays open, and
\* leaves the stored identity alone.
C13_TruncationResetsPosition ==
    [][(EnsureStep /\ truncated = "seen" /\ stat_results.ino = logfile_id) =>
          /\ logfile_self' = logfile_self
          /\ handles'[logfile_self].pos = 0
          /\ ~handles'[logfile_self].closed
          /\ logfile_id' = logfile_id]_vars

\* C14: when os.stat fails because the file was removed, the health check logs
\* one INFO record and changes nothing else: handle, identity and position
\* stay, nothing is emitted, and the reader goes on.
C14_RemovedFileIsLogged ==
    [][(HousekeepingStep /\ path_ino = 0 /\ last_ensure' # last_ensure) =>
          /\ logged' = <<"[INFO] removed">>
          /\ handles' = handles
          /\ logfile_self' = logfile_self
          /\ logfile_local' = logfile_local
          /\ logfile_id' = logfile_id
          /\ sent' = sent /\ entries' = entries
          /\ rpc' \in {"hk_save", hk_ret}]_vars

\* a follow-mode reader that had delivered an entry found its file removed and
\* is back in its loop with its handle open
C14_Witness ==
    /\ follow
    /\ path_ino = 0
    /\ logged = <<"[INFO] removed">>
    /\ rpc = "read"
    /\ ~handles[logfile_self].closed
    /\ logfile_id = handles[logfile_self].ino
    /\ Len(sent) >= 1

\* C15: when the file at the path has the stored identity and the position is
\* not past its size, the health check leaves handle, identity and position
\* unchanged and logs nothing.
C15_GoodFileUntouched ==
    [][(EnsureStep /\ stat_results.ino = logfile_id
          /\ handles[logfile_self].pos <= stat_results.size) =>
          /\ handles' = handles
          /\ logfile_self' = logfile_self
          /\ logfile_local' = logfile_local
          /\ logfile_id' = logfile_id
          /\ logged' = <<>>
          /\ rpc' # "crashed"]_vars

\* the latest health check ran on a file that had grown past the position of
\* the reader, logged nothing, and the reader reads on from that position
C15_Witness ==
    /\ follow
    /\ rpc = "read"
    /\ last_ensure = now
    /\ logged = <<>>
    /\ logfile_self = 1
    /\ path_ino = logfile_id
    /\ handles[1].pos >= 1
    /\ handles[1].pos < Len(fcontent[handles[1].ino])
    /\ truncated = "no"

\* C16 (as claimed): across a rotation in follow mode no entry is lost or
\* duplicated: every record of a file the reader has closed was delivered
\* exactly once.
C16_NothingLostAcrossRotation ==
    (follow /\ levels = {} /\ tail_length = NoTail /\ ~progress_file_path) =>
        \A k \in 1 .. Len(handles) :
            handles[k].closed =>
                \A n \in 1 .. Len(fcontent[handles[k].ino]) :
                    fcontent[handles[k].ino][n].kind = "H" =>
                        Cardinality({m \in 1 .. Len(SentAdds) :
                            SentAdds[m].e.ts = fcontent[handles[k].ino][n].ts}) = 1

\* C17: in every call _maybe_do_housekeeping(t) the health check runs iff
\* t - last health check > 2 and its timestamp becomes t; the checkpoint is
\* written iff checkpointing is on and t - last checkpoint > 5 and its
\* timestamp becomes t; a timestamp whose action is not due stays; the
\* checkpoint is written after the health check.
C17_HousekeepingGates ==
    /\ [][HousekeepingStep =>
            /\ IF now' - last_ensure > 2
               THEN /\ last_ensure' = now'
                    /\ rpc' = "hk_check" \/ (path_ino = 0 /\ logged' = <<"[INFO] removed">>)
               ELSE /\ last_ensure' = last_ensure
                    /\ rpc' # "hk_check"
                    /\ logged' = logged /\ stat_results' = stat_results
                    /\ handles' = handles /\ logfile_id' = logfile_id
            /\ rpc' # "hk_check" => rpc' = IF progress_file_path THEN "hk_save" ELSE hk_ret]_vars
    /\ [][EnsureStep =>
            (rpc' # "crashed" => rpc' = IF progress_file_path THEN "hk_save" ELSE hk_ret)]_vars
    /\ [][SaveStep =>
            /\ progress_file_path
            /\ IF now - last_save > 5
               THEN /\ last_save' = now
                    /\ \/ progress_file' = <<[id |-> logfile_id, pos |-> handles[logfile_self].pos,
                                              size |-> Len(fcontent[handles[logfile_self].ino])]>>
                       \/ \E k \in 1 .. Len(progress_log') :
                              progress_log'[k] \in {"[ERROR] Failed to save progress",
                                                    "[ERROR] Failed to gather progress information"}
               ELSE last_save' = last_save /\ progress_file' = progress_file
            /\ rpc' = hk_ret]_vars
    /\ [][(rpc \in {"hk_check", "hk_save"}) => now' = now]_vars
    /\ [][(last_save' # last_save \/ progress_file' # progress_file) => SaveStep]_vars
    /\ [][last_ensure' # last_ensure => HousekeepingStep]_vars

\* one call ran the health check, which found a truncation, and then wrote the
\* checkpoint with the position the health check had set
C17_Witness ==
    /\ progress_file_path
    /\ last_ensure = now /\ last_save = now
    /\ logged = <<"[INFO] truncated">>
    /\ progress_file = <<[id |-> logfile_id, pos |-> 0, size |-> 0]>>
    /\ handles[logfile_self].pos = 0
    /\ rpc = "loop"

\* C20 (as claimed): at start the position is the stored one when a configured
\* checkpoint loads; otherwise the end of the file when tail_length is 0;
\* otherwise (tail_length None, no time_from) offset 0; a checkpoint that does
\* not load does not keep a later rule from applying.
C20_StartPosition ==
    [][(rpc = "seek" /\ rpc' # rpc) =>
          handles'[logfile_self].pos =
              IF progress_file_path /\ progress_file # <<>> THEN progress_file[1].pos
              ELSE IF tail_length = 0 THEN Len(fcontent[handles[logfile_self].ino])
              ELSE 0]_vars

\* ---- the loop of run()
\* C18 (as claimed): a non-follow run over a file of k entries invokes
\* housekeeping once per started block of 1024 entries read: once for k = 60,
\* three times for k = 3000, at least once for every non-empty file.
C18_HousekeepingPerBlock ==
    (~follow /\ rpc = "done") => hk_calls = (entry_count + 1023) \div 1024

\* C19 (as claimed): while a reader runs in follow mode, housekeeping is
\* invoked infinitely often, whatever the arrival pattern of entries.
C19_HousekeepingInfinitelyOften ==
    follow => []<>(rpc = "hk")

\* ---- the seek functions
\* the byte offsets of the header lines of a file, in file order
RECURSIVE HeaderOffsets(_, _)
HeaderOffsets(f, k) ==
    IF k > Len(f) THEN <<>>
    ELSE (IF f[k].kind = "H" THEN <<LineStart(f, k)>> ELSE <<>>) \o HeaderOffsets(f, k + 1)
AllHeaders(f) == \A k \in 1 .. Len(f) : f[k].kind = "H"
TailReturned == call.fn = "_seek_tail" /\ ret # <<>>

\* C21: for a file of M newline-terminated header lines and no continuation
\* lines, of any size relative to the 1024-byte chunk, tail-N leaves the file
\* position at the byte offset of header line number max(0, M - N), from 0.
C21_TailOfHeaderLines ==
    (TailReturned /\ AllHeaders(call.file)) =>
        LET M == Len(call.file)
            N == call.tail_length
        IN  ret[1] = IF M = 0 THEN 0 ELSE LineStart(call.file, Max(0, M - N) + 1)

\* tail-2 of three header lines, the last two in different chunks: the
\* position found is the start of the second line, past the first chunk
C21_Witness ==
    /\ TailReturned
    /\ AllHeaders(call.file)
    /\ Len(call.file) = 3
    /\ call.tail_length = 2
    /\ FileSize(call.file) > 2 * CHUNK_SIZE
    /\ ret[1] = LineStart(call.file, 2)
    /\ ret[1] > CHUNK_SIZE

\* C22 (as claimed): tail-N counts a line toward N iff it is a header line,
\* so no continuation line, no empty line inside a message and no part of a
\* line cut by a chunk boundary is counted: the position is the first byte of
\* the N-th header line from the end, or 0 with fewer than N header lines.
C22_TailCountsHeaderLinesOnly ==
    TailReturned =>
        LET offsets == HeaderOffsets(call.file, 1)
            N == call.tail_length
        IN  ret[1] = IF Len(offsets) >= N THEN offsets[Len(offsets) - N + 1] ELSE 0

TimeReturned == call.fn = "_seek_time" /\ ret # <<>>
\* header line k of the call's file has a timestamp >= the target
AtOrAfterTarget(k) == call.file[k].kind = "H" /\ call.file[k].ts >= call.time_string

\* C23 (as claimed): for a file whose header timestamps do not decrease and
\* any target T, after seek-to-time the file position is the end of the file
\* or the first byte of a header line with timestamp >= T, and no header line
\* with timestamp >= T lies before that position.
C23_SeekTimeFindsFirst ==
    TimeReturned =>
        /\ \/ ret[1] = FileSize(call.file)
           \/ \E k \in 1 .. Len(call.file) :
                  AtOrAfterTarget(k) /\ ret[1] = LineStart(call.file, k)
        /\ \A k \in 1 .. Len(call.file) :
               AtOrAfterTarget(k) => LineStart(call.file, k) >= ret[1]

\* ---- the progress file
SaveLoadReturned == call.fn = "_save_progress;_load_progress" /\ ret # <<>>

\* C24 (as claimed): for any path (spaces allowed), identity made of letters
\* and digits, and non-negative integers position and size, writing the
\* progress record and loading it back returns exactly (path, identity,
\* position, size), position and size as integers.
C24_ProgressRoundTrip ==
    SaveLoadReturned =>
        /\ ret[1].ok
        /\ ret[1].value = <<call.path, call.identity, call.position, call.size>>

\* the number of the first header line of `content` from line k on, 0 when
\* there is none
RECURSIVE FirstHeaderFrom(_, _)
FirstHeaderFrom(content, k) ==
    IF k > Len(content) THEN 0
    ELSE IF content[k].kind = "H" THEN k
    ELSE FirstHeaderFrom(content, k + 1)

\* C25: when a progress file is configured and loads, the seek puts the file
\* position at the stored position and makes the stored identity the reader's
\* logfile_id; on a file nobody changes, the first entry the reader then emits
\* is the first record at or after that position.
C25_ResumeFromCheckpoint ==
    /\ [][(rpc = "seek" /\ rpc' # "seek" /\ progress_file_path /\ progress_file # <<>>) =>
            /\ handles'[logfile_self].pos = progress_file[1].pos
            /\ logfile_id' = progress_file[1].id
            /\ rpc' = "loop"]_vars
    /\ [](( /\ progress_log = LogResumed
            /\ ~modified
            /\ levels = {}
            /\ FirstHeaderFrom(ReaderFile, progress_file[1].pos + 1) # 0)
          => /\ added # <<>> =>
                   added[1].ts =
                       ReaderFile[FirstHeaderFrom(ReaderFile, progress_file[1].pos + 1)].ts
             /\ rpc = "done" => added # <<>>)

\* a reader resumed at line 1 of a file of two records, with the identity of
\* a file rotated away, has emitted the second record first
C25_Witness ==
    /\ progress_log = LogResumed
    /\ ~modified
    /\ levels = {}
    /\ progress_file[1].pos = 1
    /\ progress_file[1].id = StaleId
    /\ logfile_id = StaleId
    /\ Len(ReaderFile) = 2
    /\ ReaderFile[1].kind = "H"
    /\ added # <<>>
    /\ added[1].ts = ReaderFile[2].ts

\* C26: when a progress file is configured and is absent or does not parse,
\* the seek raises nothing: exactly one warning is logged, the file position
\* stays at 0, logfile_id stays the identity of the file opened, and the
\* reader goes on to its read loop.
C26_LoadFailureIsAWarning ==
    [][(rpc = "seek" /\ rpc' # "seek" /\ progress_file_path /\ progress_file = <<>>) =>
          /\ progress_log' = <<"[WARN] Failed to read the progress file">>
          /\ handles'[logfile_self].pos = 0
          /\ handles' = handles
          /\ logfile_id' = logfile_id
          /\ logfile_id' = handles[logfile_self].ino
          /\ rpc' = "loop"]_vars

\* a reader whose progress file exists and does not parse has logged the
\* warning and emitted the first record of its file
C26_Witness ==
    /\ progress_file_path
    /\ progress_exists
    /\ progress_file = <<>>
    /\ progress_log = <<"[WARN] Failed to read the progress file">>
    /\ ~modified
    /\ levels = {}
    /\ added # <<>>
    /\ added[1].ts = ReaderFile[1].ts
    /\ logfile_id = 1

\* the latest _save_progress call logged a failure
SaveFailedLogged(log) ==
    \E k \in 1 .. Len(log) :
        log[k] \in {"[ERROR] Failed to save progress",
                    "[ERROR] Failed to gather progress information"}

\* C27 (as claimed): a checkpoint write that fails, or a failure to gather
\* position and size, is logged and swallowed: the housekeeping call returns
\* to the reader loop, the read position and logfile_id are unchanged, the
\* failed attempt creates no progress file, and the time of the attempt is
\* recorded, so that the next attempt is made at the first housekeeping call
\* more than 5 s later.
C27_FailedSaveLeavesNothing ==
    [][(rpc = "hk_save" /\ rpc' # "hk_save" /\ SaveDue(now) /\ SaveFailedLogged(progress_log')) =>
          /\ rpc' = hk_ret
          /\ handles' = handles
          /\ logfile_id' = logfile_id
          /\ progress_exists' = progress_exists
          /\ last_save' = now]_vars

\* the entries of the file's lines from line k on
RECURSIVE HeaderStamps(_, _)
HeaderStamps(content, k) ==
    IF k > Len(content) THEN {}
    ELSE (IF content[k].kind = "H" THEN {content[k].ts} ELSE {}) \cup HeaderStamps(content, k + 1)

\* C28 (as claimed): with a progress file configured, a reader stopped at any
\* point and started again on a file nobody changed delivers, over both runs,
\* no entry a second time, and when the second run has ended, every entry of
\* the file.
C28_RestartDeliversExactlyOnce ==
    (envSteps = 0) =>
       /\ \A j, k \in 1 .. Len(sent) :
             (j < k /\ sent[j].op = "add" /\ sent[k].op = "add") => sent[j].e.ts # sent[k].e.ts
       /\ (restarts = MaxRestarts /\ rpc = "done") =>
             {sent[k].e.ts : k \in {j \in 1 .. Len(sent) : sent[j].op = "add"}}
                 = HeaderStamps(fcontent[1], 1)

\* ---- the parser
ParserReturned == call.fn = "read" /\ ret # <<>>
\* the offset of line j of the file of the call
RECURSIVE LineOffset(_, _)
LineOffset(lines, j) == IF j <= 1 THEN 0 ELSE LineOffset(lines, j - 1) + Len(lines[j - 1])
\* a header line as the specification defines it: non-empty, bytes 0..1 are
\* "20", byte 23 is a space
IsHeaderText(l) == Len(l) >= 24 /\ l[1] = "2" /\ l[2] = "0" /\ l[24] = " "

\* C29 (as claimed): every entry the parser emits was started on a header
\* line (non-empty, bytes 0..1 equal "20", byte 23 a space), the lines that
\* end the accumulation of a message.
C29_EntriesStartOnHeaderLines ==
    ParserReturned =>
        \A k \in 1 .. Len(ret[1]) :
            \E j \in 1 .. Len(call.lines) :
                /\ LineOffset(call.lines, j) = ret[1][k].at
                /\ IsHeaderText(call.lines[j])

\* a record: a header line with a message column, the fifth column after the
\* date column
Blanks(l, p) == Cardinality({k \in 25 .. p : l[k] = " "})
IsRecordText(l) == IsHeaderText(l) /\ Blanks(l, Len(l)) >= 4
MessageColumn(l) ==
    LET p == CHOOSE p \in 25 .. Len(l) : l[p] = " " /\ Blanks(l, p) = 4
    IN  SubSeq(l, p + 1, Len(l))
\* the number of continuation lines (lines that are no header lines) that
\* follow line j
RECURSIVE ContinuationCount(_, _)
ContinuationCount(lines, j) ==
    IF j + 1 > Len(lines) \/ IsHeaderText(lines[j + 1]) THEN 0
    ELSE 1 + ContinuationCount(lines, j + 1)
\* a text up to its last character that is no whitespace
WithoutTrailingWhitespace(s) ==
    LET n == CHOOSE n \in 0 .. Len(s) :
                 /\ n = 0 \/ s[n] \notin {" ", "\t", "\n"}
                 /\ \A k \in n + 1 .. Len(s) : s[k] \in {" ", "\t", "\n"}
    IN  SubSeq(s, 1, n)

DataLines(c) ==
    [j \in 1 .. Len(c.lines) |->
        IF c.chop /\ j = Len(c.lines) THEN SubSeq(c.lines[j], 1, Len(c.lines[j]) - 1)
        ELSE c.lines[j]]
\* a line that does not start with "20" or has fewer than five columns after
\* the date column
Malformed(l) == ~(Len(l) >= 2 /\ l[1] = "2" /\ l[2] = "0") \/ Blanks(l, Len(l)) < 4
\* the lines read() meets and skips: the malformed lines that are not part
\* of the message of the record before them
RECURSIVE SkippedLines(_, _)
SkippedLines(lines, j) ==
    IF j > Len(lines) THEN <<>>
    ELSE IF Malformed(lines[j]) THEN <<lines[j]>> \o SkippedLines(lines, j + 1)
    ELSE SkippedLines(lines, j + 1 + ContinuationCount(lines, j))

\* C31: on a finite file read returns; it emits no entry for a line that does
\* not start with "20" or has too few columns, and it logs exactly one
\* warning for each such line it skips, in file order, also when the line is
\* the last one and has no newline; nothing else is logged.
C31_MalformedLinesAreLoggedAndSkipped ==
    ParserReturned =>
        /\ \A k \in 1 .. Len(ret[1]) :
              \E j \in 1 .. Len(call.lines) :
                  /\ LineOffset(call.lines, j) = ret[1][k].at
                  /\ ~Malformed(DataLines(call)[j])
        /\ \A k \in 1 .. Len(ret[2]) : ret[2][k].level = "WARN"
        /\ [k \in 1 .. Len(ret[2]) |-> ret[2][k].line] = SkippedLines(DataLines(call), 1)

\* a file of a line without a date and a last line, without newline, that
\* has a date and too few columns: no entry, two warnings
C31_Witness ==
    /\ ParserReturned
    /\ call.chop
    /\ Len(call.lines) = 2
    /\ call.lines[1] = <<"a", "\n">>
    /\ IsHeaderText(call.lines[2])
    /\ Malformed(call.lines[2])
    /\ ret[1] = <<>>
    /\ Len(ret[2]) = 2
    /\ ret[2][1].what = "no date"
    /\ ret[2][2].what = "too few columns"
    /\ ret[2][2].line = DataLines(call)[2]

\* ---- auto-configuration
AutoconfigureReturned == call.fn = "autoconfigure" /\ ret # <<>>
\* column k after the date (0-based) of the sample line of the call, as it
\* stands in the file
ColumnText(c, k) ==
    IF k + 1 = Len(c.columns) /\ c.newline THEN c.columns[k + 1] \o <<"\n">> ELSE c.columns[k + 1]
\* Class.method(File:Line): class, method and file non-empty, the line a number
ValidLocationText(t) == t = <<"C", ".", "m", "(", "F", ":", "1", ")", ":">>
HasLocation(c, k) == k + 1 <= Len(c.columns) /\ ValidLocationText(ColumnText(c, k))

\* C32: auto-configuration takes the first of the columns 1, 2, 3 after the
\* date that is a valid code location, sets the message index to the location
\* index + 1 and column_count to the message index + 1, and the level, thread
\* and flow indices by the table (3 columns: level 0; 4: level 0, thread 1;
\* 5: flow 0, level 1, thread 2; the others None); without such a column it
\* raises.
C32_AutoconfigureTable ==
    AutoconfigureReturned =>
        IF \E k \in 1 .. 3 : HasLocation(call, k)
        THEN LET first == CHOOSE k \in 1 .. 3 :
                              HasLocation(call, k) /\ \A j \in 1 .. k - 1 : ~HasLocation(call, j)
                 r == ret[1]
             IN  /\ ~r.raised
                 /\ r.delimiter = " "
                 /\ r.location_column_index = first
                 /\ r.message_column_index = first + 1
                 /\ r.column_count = first + 2
                 /\ <<r.flow_id_column_index, r.level_column_index, r.thread_column_index>> =
                        CASE first = 1 -> <<None, 0, None>>
                          [] first = 2 -> <<None, 0, 1>>
                          [] first = 3 -> <<0, 1, 2>>
        ELSE ret[1].raised

\* a sample line with a level, two code locations and a message: the first
\* location is taken, three columns
C32_Witness ==
    /\ AutoconfigureReturned
    /\ Len(call.columns) = 4
    /\ HasLocation(call, 1)
    /\ HasLocation(call, 2)
    /\ ~ret[1].raised
    /\ ret[1].location_column_index = 1
    /\ ret[1].column_count = 3
    /\ ret[1].thread_column_index = None

\* ---- the filter
MatchesReturned == call.fn = "matches" /\ ret # <<>>

\* C33 (as claimed): a filter matches an entry iff (levels is empty or the
\* entry's level is in levels) and (grep is absent or grep is a substring of
\* the message or of the class name) and (time_from is absent or time_from <=
\* timestamp) and (time_to is absent or timestamp < time_to).
C33_FilterMatches ==
    MatchesReturned =>
        /\ ~ret[1].raised
        /\ ret[1].value <=>
              /\ call.filter.levels = {} \/ call.entry.level \in call.filter.levels
              /\ \/ call.filter.grep = <<>>
                 \/ IsSubstring(call.filter.grep, call.entry.message)
                 \/ IsSubstring(call.filter.grep, call.entry.clazz)
              /\ call.filter.time_from = None \/ call.filter.time_from <= call.entry.ts
              /\ call.filter.time_to = None \/ call.entry.ts < call.filter.time_to

\* C34 (as claimed): whenever the reader holds an open file, logfile_id is the
\* identity of the file that file object refers to, also right after a
\* start-up that resumed from a progress file.
C34_IdentityIsThatOfTheOpenFile ==
    (logfile_self # 0 /\ ~handles[logfile_self].closed) =>
        logfile_id = handles[logfile_self].ino

\* C35 (as claimed): when reader 0 ended at start-up (open or autoconfigure
\* failed) and every other reader has signalled eof, the drain of the ordered
\* aggregator ends.
C35_DrainEndsAfterStartupCrash ==
    (rpc = "crashed" /\ eofd = Readers \ {reader_id}) ~> (cpc = "done")

\* C36: every entry the ordered drain yields is less than or equal to, in the
\* order (ts, fid, i), every entry that is in the heap when it is popped.
C36_PoppedIsHeapMinimum ==
    [][(variant = "ordered" /\ Len(yielded') = Len(yielded) + 1) =>
          \A k \in 1 .. Len(entries) : EntryLe(yielded'[Len(yielded')].e, entries[k])]_vars

\* a pop has just left two entries in the heap, both larger than the one it took
C36_Witness ==
    /\ variant = "ordered"
    /\ Len(yielded) >= 1
    /\ yielded[Len(yielded)].stamp = Len(added)
    /\ Len(entries) >= 2
    /\ \A k \in 1 .. Len(entries) : EntryLt(yielded[Len(yielded)].e, entries[k])

\* C37 (as claimed): every record written to the progress file has
\* 0 <= position <= size, whatever appends, truncations and rotations of the
\* log file and whatever timing of the housekeeping calls came before.
C37_CheckpointWithinFile ==
    [][(progress_file' # progress_file /\ progress_file' # <<>>) =>
          (0 <= progress_file'[1].pos /\ progress_file'[1].pos <= progress_file'[1].size)]_vars

\* C38 (as claimed): when the progress file names another file than the one
\* now at the path (the log was rotated while the reader was stopped), the
\* reader delivers the entries of the new file from offset 0, each once, and
\* not from the stored offset.  Stated for a non-follow run that has ended
\* on a file nobody changed meanwhile.
C38_RotatedWhileStoppedReadsFromStart ==
    (/\ ~follow
     /\ rpc = "done"
     /\ ~modified
     /\ progress_file # <<>>
     /\ progress_file[1].id # handles[1].ino) =>
        SentAdds = MatchingEntriesFrom(ReaderFile, 1, 0, levels)

\* C39 (as claimed): in follow mode, on a file that is read from its start and
\* only ever appended to, no continuation line is skipped by read(): each one
\* is taken into the message of the record whose header precedes it, also
\* when the reader reached the end of the file between the two writes.
C39_NoContinuationLineSkipped ==
    [][~(/\ follow
         /\ tail_length = NoTail
         /\ ~progress_file_path
         /\ truncated = "no"
         /\ rpc = "read"
         /\ handles[logfile_local].ino = 1
         /\ IsContinuationLine(ReadLine(handles[logfile_local]))
         /\ handles'[logfile_local].pos = handles[logfile_local].pos + 1
         /\ sent' = sent)]_vars

\* ---- follow mode
\* the file the reader started on is still at the path and was only appended to
Quiet == path_ino = 1 /\ truncated = "no"
\* line k of that file is a record the filter lets pass and the reader has not
\* read yet; the reader did not resume from the progress record of a file
\* rotated away while it was stopped
Unread(k) ==
    /\ follow
    /\ started
    /\ Quiet
    /\ logfile_self = logfile_local
    /\ logfile_id = handles[logfile_local].ino
    /\ handles[logfile_local].pos < k
    /\ k <= Len(fcontent[1])
    /\ fcontent[1][k].kind = "H"
    /\ Matches(levels, fcontent[1][k])
DeliveredLine(k) ==
    /\ k <= Len(fcontent[1])
    /\ \E j \in 1 .. Len(sent) : sent[j].op = "add" /\ sent[j].e.ts = fcontent[1][k].ts
MaxFileLength == MaxLines + MaxEnvSteps

====
